---- MODULE Spec2Model ----
(***************************************************************************)
(* Model of the git aggregation pipeline of standup-cli (gitUtils.ts):     *)
(* findGitRepositories, extractBranchName, getCommitsSince,                *)
(* getUnpushedCommits, aggregateCommits and the three formatters.          *)
(*                                                                         *)
(* A JavaScript string is a sequence of one-character strings, so that     *)
(* trim, split, startsWith, replace and the regular expressions are        *)
(* computed character by character, as the code computes them.             *)
(***************************************************************************)
EXTENDS Integers, Sequences, FiniteSets, TLC

(***************************************************************************)
(* Bounds of the model.                                                    *)
(***************************************************************************)
\* longest ref-decoration string, counted in atoms of RefAtoms
MaxAtoms == 4
\* longest list of repository paths handed to aggregateCommits
MaxRepos == 2
\* how long the clock of a getCommitsSince call runs, in timeouts
MaxTicks == 2

(***************************************************************************)
(* String primitives (methods of String.prototype and Array.prototype)    *)
(***************************************************************************)
\* the white space String.prototype.trim removes (of the characters modelled)
IsSpace(c) == c \in {" ", "\n"}

RECURSIVE TrimStart(_)
TrimStart(s) ==
  IF s # <<>> /\ IsSpace(Head(s)) THEN TrimStart(Tail(s)) ELSE s

RECURSIVE TrimEnd(_)
TrimEnd(s) ==
  IF s # <<>> /\ IsSpace(s[Len(s)]) THEN TrimEnd(SubSeq(s, 1, Len(s) - 1)) ELSE s

\* String.prototype.trim
Trim(s) == TrimEnd(TrimStart(s))

\* String.prototype.startsWith
StartsWith(s, p) == Len(s) >= Len(p) /\ SubSeq(s, 1, Len(p)) = p

\* positions at which the literal p occurs in s
Occurrences(s, p) ==
  {k \in 1..(Len(s) - Len(p) + 1) : SubSeq(s, k, k + Len(p) - 1) = p}

Min(S) == CHOOSE x \in S : \A y \in S : x <= y

\* String.prototype.replace(p, '') with a string pattern: the first
\* occurrence only
ReplaceFirst(s, p) ==
  IF Occurrences(s, p) = {} THEN s
  ELSE LET k == Min(Occurrences(s, p))
       IN  SubSeq(s, 1, k - 1) \o SubSeq(s, k + Len(p), Len(s))

\* String.prototype.split(d) for a one-character separator d: the pieces
\* between the separators, empty pieces included; "" splits to [""]
RECURSIVE SplitFrom(_, _, _)
SplitFrom(s, d, cur) ==
  IF s = <<>> THEN <<cur>>
  ELSE IF Head(s) = d THEN <<cur>> \o SplitFrom(Tail(s), d, <<>>)
  ELSE SplitFrom(Tail(s), d, Append(cur, Head(s)))

Split(s, d) == SplitFrom(s, d, <<>>)

\* variant: only the first of the parts is kept
Join_FirstPart(parts, d) == IF parts = <<>> THEN <<>> ELSE parts[1]

\* Array.prototype.join(d)
RECURSIVE Join(_, _)
Join(parts, d) ==
  IF parts = <<>> THEN <<>>
  ELSE IF Len(parts) = 1 THEN parts[1]
  ELSE parts[1] \o <<d>> \o Join(Tail(parts), d)

\* the concatenation of a sequence of strings
RECURSIVE Concat(_)
Concat(parts) ==
  IF parts = <<>> THEN <<>> ELSE Head(parts) \o Concat(Tail(parts))

(***************************************************************************)
(* extractBranchName                                                       *)
(***************************************************************************)
HeadArrow == <<"H", "E", "A", "D", " ", "-", ">", " ">>
OriginPrefix == <<"o", "r", "i", "g", "i", "n", "/">>
TagPrefix == <<"t", "a", "g", ":">>

\* the null a string-or-null function returns; no string equals it
NoBranch == <<"null">>

\* refNames.replace(/[()]/g, '')
StripParens(s) == SelectSeq(s, LAMBDA c : c \notin {"(", ")"})

\* ref.match(/HEAD -> (.+)/): the leftmost "HEAD -> " that is followed by
\* at least one character; the group is the rest of the string
HeadMatchAt(ref) ==
  {k \in Occurrences(ref, HeadArrow) : k + Len(HeadArrow) <= Len(ref)}

HeadMatches(ref) == HeadMatchAt(ref) # {}

HeadMatchGroup(ref) ==
  SubSeq(ref, Min(HeadMatchAt(ref)) + Len(HeadArrow), Len(ref))

\* variant: tag markers are not skipped
IsLocalRef_TagsCount(ref) == ~StartsWith(ref, OriginPrefix)

\* !ref.startsWith('origin/') && !ref.startsWith('tag:')
IsLocalRef(ref) == ~StartsWith(ref, OriginPrefix) /\ ~StartsWith(ref, TagPrefix)

IsOriginRef(ref) == StartsWith(ref, OriginPrefix)

\* the test of each of the three loops over refs
RefIs(kind, ref) ==
  IF kind = "head" THEN HeadMatches(ref)
  ELSE IF kind = "local" THEN IsLocalRef(ref)
  ELSE IsOriginRef(ref)

\* the index of the first element of refs that passes the test, scanned in
\* order, or 0 (for (const ref of refs) { if (...) return ... })
RECURSIVE FirstIndex(_, _, _)
FirstIndex(refs, kind, i) ==
  IF i > Len(refs) THEN 0
  ELSE IF RefIs(kind, refs[i]) THEN i
  ELSE FirstIndex(refs, kind, i + 1)

\* .map(r => r.trim())
RECURSIVE MapTrim(_)
MapTrim(parts) ==
  IF parts = <<>> THEN <<>> ELSE <<Trim(Head(parts))>> \o MapTrim(Tail(parts))

extractBranchName(refNames) ==
  IF refNames = <<>> THEN NoBranch
  ELSE LET cleaned == Trim(StripParens(refNames))
       IN  IF cleaned = <<>> THEN NoBranch
           ELSE LET refs == MapTrim(Split(cleaned, ","))
                    h == FirstIndex(refs, "head", 1)
                    l == FirstIndex(refs, "local", 1)
                    o == FirstIndex(refs, "origin", 1)
                IN  IF h # 0 THEN HeadMatchGroup(refs[h])
                    ELSE IF l # 0 THEN refs[l]
                    ELSE IF o # 0 THEN ReplaceFirst(refs[o], OriginPrefix)
                    ELSE NoBranch

(***************************************************************************)
(* getRepositoryName and the ordering of repository names                  *)
(***************************************************************************)
\* path.basename: the last non-empty segment of the path
Basename(path) ==
  LET segs == SelectSeq(Split(path, "/"), LAMBDA seg : seg # <<>>)
  IN  IF segs = <<>> THEN <<>> ELSE segs[Len(segs)]

getRepositoryName(repoPath) == Basename(repoPath)

\* the collation order of the characters that occur in repository names
Collation == <<"a", "b", "x", "y">>

CharRank(c) == CHOOSE i \in 1..Len(Collation) : Collation[i] = c

\* String.prototype.localeCompare: negative, zero or positive
RECURSIVE localeCompare(_, _)
localeCompare(a, b) ==
  IF a = <<>> /\ b = <<>> THEN 0
  ELSE IF a = <<>> THEN -1
  ELSE IF b = <<>> THEN 1
  ELSE IF CharRank(Head(a)) < CharRank(Head(b)) THEN -1
  ELSE IF CharRank(Head(a)) > CharRank(Head(b)) THEN 1
  ELSE localeCompare(Tail(a), Tail(b))

(***************************************************************************)
(* getCommitsSince: what the call makes of one run of `git log`            *)
(***************************************************************************)
\* the value of an optional field that is not set
Undefined == <<"undefined">>

\* one iteration of `for (const line of lines)`: the destructuring of
\* line.split('|') and the commit pushed; refNames.trim() raises a TypeError
\* when the line has fewer than four fields
LineThrows(line) == Len(Split(line, "|")) < 4

ParseLine(line, repoName) ==
  LET f == Split(line, "|")
      refNames == Trim(f[4])
      branch == extractBranchName(refNames)
  IN  [hash |-> f[1],
       author |-> f[3],
       timestamp |-> f[2],
       message |-> Trim(Join(SubSeq(f, 5, Len(f)), "|")),
       refNames |-> refNames,
       isUnpushed |-> FALSE,
       repoName |-> repoName,
       branch |-> IF branch = NoBranch \/ branch = <<>> THEN Undefined ELSE branch]

\* the loop over the lines; an exception leaves the loop with the commits
\* pushed so far
RECURSIVE ParseLines(_, _, _)
ParseLines(lines, repoName, commits) ==
  IF lines = <<>> THEN [threw |-> FALSE, commits |-> commits]
  ELSE IF Head(lines) = <<>> THEN ParseLines(Tail(lines), repoName, commits)
  ELSE IF LineThrows(Head(lines)) THEN [threw |-> TRUE, commits |-> commits]
  ELSE ParseLines(Tail(lines), repoName,
                  Append(commits, ParseLine(Head(lines), repoName)))

\* the body of the try block, given how the call ran: loaded is FALSE when
\* getConfig() raises, run.spawned is FALSE when Bun.spawn raised,
\* run.exitCode and run.output are what the process left
TryBody(repoPath, run, loaded) ==
  IF ~loaded THEN [threw |-> TRUE, commits |-> <<>>]
  ELSE IF ~run.spawned THEN [threw |-> TRUE, commits |-> <<>>]
  ELSE IF run.exitCode # 0 THEN [threw |-> FALSE, commits |-> <<>>]
  ELSE IF Trim(run.output) = <<>> THEN [threw |-> FALSE, commits |-> <<>>]
  ELSE ParseLines(Split(Trim(run.output), "\n"), getRepositoryName(repoPath), <<>>)

\* variant: the exception is not caught
CatchAndReturn_Rethrow(body) == body

\* catch (error) { } return commits;
CatchAndReturn(body) == [threw |-> FALSE, commits |-> body.commits]

getCommitsSince(repoPath, run, loaded) ==
  CatchAndReturn(TryBody(repoPath, run, loaded))

(***************************************************************************)
(* getUnpushedCommits: what the call makes of the repository's refs        *)
(***************************************************************************)
\* the run of `git log origin/b..b` for branch b; a branch the repository
\* state does not describe has no remote counterpart and git fails
CompareRun(refs, branch) ==
  IF \E i \in 1..Len(refs.compare) : refs.compare[i].branch = branch
  THEN refs.compare[CHOOSE i \in 1..Len(refs.compare) : refs.compare[i].branch = branch]
  ELSE [branch |-> branch, exitCode |-> 128, output |-> <<>>]

\* variant: the exit code of the comparison is not looked at
BranchHashes_AnyExit(run) ==
  IF Trim(run.output) # <<>>
  THEN {Split(Trim(run.output), "\n")[i] : i \in 1..Len(Split(Trim(run.output), "\n"))}
  ELSE {}

\* the hashes one branch adds
BranchHashes(run) ==
  IF run.exitCode = 0 /\ Trim(run.output) # <<>>
  THEN {Split(Trim(run.output), "\n")[i] : i \in 1..Len(Split(Trim(run.output), "\n"))}
  ELSE {}

RECURSIVE UnionOverBranches(_, _, _)
UnionOverBranches(refs, branches, unpushedHashes) ==
  IF branches = <<>> THEN unpushedHashes
  ELSE UnionOverBranches(refs, Tail(branches),
         unpushedHashes \cup BranchHashes(CompareRun(refs, Head(branches))))

getUnpushedCommits(refs) ==
  IF refs.listExit # 0 THEN {}
  ELSE LET branches == SelectSeq(Split(Trim(refs.listOutput), "\n"),
                                 LAMBDA b : b # <<>>)
       IN  UnionOverBranches(refs, branches, {})

(***************************************************************************)
(* aggregateCommits: the pieces of the per-repository task and of the      *)
(* grouping                                                                *)
(***************************************************************************)
\* variant: the commits keep the push status the fetch gave them
MarkCommits_Skipped(commits, unpushedHashes) == commits

\* commits.forEach(commit => commit.isUnpushed = unpushedHashes.has(commit.hash))
RECURSIVE MarkCommits(_, _)
MarkCommits(commits, unpushedHashes) ==
  IF commits = <<>> THEN <<>>
  ELSE <<[Head(commits) EXCEPT !.isUnpushed = (Head(commits).hash \in unpushedHashes)]>>
         \o MarkCommits(Tail(commits), unpushedHashes)

\* variant: results are collected in the order in which the tasks finish
StoreResult_CompletionOrder(res, r, value) ==
  [res EXCEPT ![Min({i \in 1..Len(res) : ~res[i].ready})] = value]

\* the slot of Promise.all's result array a finished task fills: its own
StoreResult(res, r, value) == [res EXCEPT ![r] = value]

\* variant: both calls of a task are started before either is awaited
InitialDetectState_Concurrent == "running"

\* whether the detection of a repository is started together with its fetch
\* ("idle": it is started by the line after `await getCommitsSince`)
InitialDetectState == "idle"

PushedCount(commits) == Len(SelectSeq(commits, LAMBDA c : ~c.isUnpushed))

\* variant: the filter on isUnpushed is lost
UnpushedCount_AllCommits(commits) == Len(commits)

UnpushedCount(commits) == Len(SelectSeq(commits, LAMBDA c : c.isUnpushed))

\* variant: every repository gets a group
KeepsResult_Always(result) == TRUE

\* if (result.commits.length > 0)
KeepsResult(result) == Len(result.commits) > 0

MakeGroup(result) ==
  [repoName |-> result.repoName,
   commits |-> result.commits,
   pushedCount |-> PushedCount(result.commits),
   unpushedCount |-> UnpushedCount(result.commits)]

\* the loop `for (const result of results)`: the groups and the total
RECURSIVE BuildGroups(_, _)
BuildGroups(res, acc) ==
  IF res = <<>> THEN acc
  ELSE IF KeepsResult(Head(res))
  THEN BuildGroups(Tail(res),
         [groups |-> Append(acc.groups, MakeGroup(Head(res))),
          totalCommits |-> acc.totalCommits + Len(Head(res).commits)])
  ELSE BuildGroups(Tail(res), acc)

\* Array.prototype.sort with the comparator of line 415; the sort is stable
RECURSIVE InsertGroup(_, _)
InsertGroup(g, sorted) ==
  IF sorted = <<>> THEN <<g>>
  ELSE IF localeCompare(Head(sorted).repoName, g.repoName) <= 0
  THEN <<Head(sorted)>> \o InsertGroup(g, Tail(sorted))
  ELSE <<g>> \o sorted

RECURSIVE SortFrom(_, _)
SortFrom(gs, sorted) ==
  IF gs = <<>> THEN sorted ELSE SortFrom(Tail(gs), InsertGroup(Head(gs), sorted))

\* variant: the groups stay in the order of the input
SortGroups_Unsorted(gs) == gs

SortGroups(gs) == SortFrom(gs, <<>>)

(***************************************************************************)
(* The repositories of the model: what git does in each                    *)
(***************************************************************************)
Paths == {<<"/", "a", "/", "x">>, <<"/", "b", "/", "x">>, <<"/", "a", "/", "y">>}

H1 == <<"h", "1">>
H2 == <<"h", "2">>
H3 == <<"h", "3">>

\* records of `git log --pretty=format:%H|%aI|%an|%d|%s`
Line1 == H1 \o <<"|", "t", "|", "u", "|", "|", "m">>
Line2 == H2 \o <<"|", "t", "|", "u", "|", " ", "(", "x", ")", "|", "f", "|", "g">>
\* a line of output that is no record
BadLine == <<"z", "z">>

Ran(exitCode, output) ==
  [spawned |-> TRUE, exitCode |-> exitCode, output |-> output]

NoRefs == [listExit |-> 128, listOutput |-> <<>>, compare |-> <<>>]

RefsX == [listExit |-> 0, listOutput |-> <<"x", "\n">>,
          compare |-> <<[branch |-> <<"x">>, exitCode |-> 0, output |-> H1]>>]

\* branch x has no remote counterpart; branch y is ahead by h2 and h3
RefsXY == [listExit |-> 0, listOutput |-> <<"x", "\n", "y", "\n">>,
           compare |-> <<[branch |-> <<"y">>, exitCode |-> 0,
                          output |-> H2 \o <<"\n">> \o H3 \o <<"\n">>]>>]

RepoStates ==
  { [log |-> [spawned |-> FALSE, exitCode |-> 0, output |-> <<>>],
     refs |-> NoRefs],
    [log |-> Ran(128, <<"f">>), refs |-> NoRefs],
    [log |-> Ran(0, <<>>), refs |-> RefsX],
    [log |-> Ran(0, Line1), refs |-> RefsX],
    [log |-> Ran(0, Line1 \o <<"\n">> \o Line2), refs |-> RefsXY],
    [log |-> Ran(0, Line1 \o <<"\n">> \o Line2 \o <<"\n">>), refs |-> NoRefs],
    [log |-> Ran(0, Line1 \o <<"\n">> \o BadLine \o <<"\n">> \o Line2), refs |-> RefsX] }

\* the lists of repository paths: findGitRepositories lists a directory once
RepoLists ==
  {l \in UNION {[1..n -> Paths] : n \in 0..MaxRepos} :
     \A i, j \in 1..Len(l) : i # j => l[i] # l[j]}

(***************************************************************************)
(* State                                                                   *)
(***************************************************************************)
VARIABLES
  configLoaded,  \* config.ts: cachedConfig is set (loadConfig has run)
  repoPaths,     \* aggregateCommits: the argument repoPaths
  repoState,     \* what git does in repoPaths[r]
  fetchState,    \* per task: the call of getCommitsSince (idle, running, done)
  detectState,   \* per task: the call of getUnpushedCommits
  commitsOf,     \* per task: the local `commits`
  unpushedOf,    \* per task: the local `unpushedHashes`
  results,       \* the array Promise.all resolves to
  completed,     \* history: the tasks in the order in which they finished
  aggPc,         \* aggregateCommits: running, done (returned) or rejected (threw)
  groups,        \* the returned groups
  totalCommits,  \* the returned totalCommits
  refInput,      \* extractBranchName: the argument
  branchOut,     \* extractBranchName: the value returned
  branchPc,      \* extractBranchName: called or returned
  fPc,           \* getCommitsSince: where the call stands
  fLoaded,       \* getCommitsSince: cachedConfig is set when it is called
  fSpawnOk,      \* whether Bun.spawn will succeed
  fSince,        \* the argument since, in milliseconds (since.getTime())
  fNow,          \* what Date.now() gave at line 218
  fHoursAgo,     \* the local `hoursAgo`
  procPlan,      \* the lines the subprocess would write, and its exit code
  proc,          \* the subprocess: none, running, killed (signalled) or exited
  written,       \* how many lines the subprocess has written to stdout
  stdoutOpen,    \* the subprocess holds its stdout open
  stderrOpen,    \* the subprocess holds its stderr open
  exitCode,      \* proc.exitCode once the subprocess has exited
  timerArmed,    \* the setTimeout of line 257 is pending
  killSent,      \* proc.kill() has signalled the running subprocess
  clock,         \* milliseconds since the spawn
  overdue,       \* history: the timeout passed with the subprocess not exited
  fOutput,       \* the local `output`
  fReturn,       \* what the call returned: [threw, commits]
  pFields,       \* a commit as git holds it: hash, timestamp, author, decoration, subject
  pOut,          \* the commit getCommitsSince pushes for its record
  pPc,           \* the iteration of the loop over the lines: called or returned
  uHeads,        \* getUnpushedCommits: the local branches of the repository
  uListOk,       \* whether the spawn of `git for-each-ref` will succeed
  uListExit,     \* the exit code of `git for-each-ref`
  uPc,           \* getUnpushedCommits: called, loop or returned
  uBranches,     \* the local `branches`
  uIdx,          \* the place of the loop in `branches`
  uUnpushed,     \* the local `unpushedHashes`
  uRuns,         \* history: per branch compared, whether its comparison succeeded
  gLoaded,       \* findGitRepositories: cachedConfig is set when it is called
  gScanArg,      \* the argument scanPath, or Undefined
  gExclude,      \* config.excludeRepos
  gFound,        \* the repositories on disk under the scan root, in find's order
  gSpawnOk,      \* whether the spawn of `find` will succeed
  gDenied,       \* find meets a directory it may not read
  gPc,           \* findGitRepositories: called or returned
  gOut,          \* what the call came to: [threw, repos]
  mGroups,       \* the formatters: the groups they are given
  mDone,         \* which of the three formatters have returned
  mGrouped,      \* what formatCommitsGrouped returned
  mFlat,         \* what formatCommitsFlat returned
  mAcc,          \* what commitsToAccomplishments returned
  dayLen,        \* the local calendar: the number of hours of each day
  nowHour,       \* the system clock, in hours since the first local midnight
  streakFile,    \* STREAK_FILE: NoFile, or the streak it holds
  sCalled,       \* history: updateStreak has been called
  sAt,           \* history: the clock at the last call of updateStreak
  sPrev,         \* history: what getStreakData gave the last call
  sRet,          \* what the last call of updateStreak returned
  sWrote,        \* history: the last call wrote STREAK_FILE
  firstDay,      \* the day of the week of the first day of the calendar
  cfg,           \* the configuration: enableAI and customQuestions
  standupFiles,  \* STANDUP_DIR: for each day its <date>.md, or none
  flow,          \* a run of standup: its mode, its place and its locals
  seen,          \* history of the run: replies and writes
  remindersFile, \* REMINDER_STATE_FILE: NoFile, or the state it holds
  nLast,         \* history: the last notification sent, and when
  nDay,          \* history: the local day of the last notification sent
  nCount         \* history: how many were sent on that day (2 for more)

aggVars ==
  <<configLoaded, repoPaths, repoState, fetchState, detectState, commitsOf,
    unpushedOf, results, completed, aggPc, groups, totalCommits>>

branchVars == <<refInput, branchOut, branchPc>>

fetchVars ==
  <<fPc, fLoaded, fSpawnOk, fSince, fNow, fHoursAgo, procPlan, proc, written, stdoutOpen, stderrOpen,
    exitCode, timerArmed, killSent, clock, overdue, fOutput, fReturn>>

parseVars == <<pFields, pOut, pPc>>

unpushedVars ==
  <<uHeads, uListOk, uListExit, uPc, uBranches, uIdx, uUnpushed, uRuns>>

findVars == <<gLoaded, gScanArg, gExclude, gFound, gSpawnOk, gDenied, gPc, gOut>>

formatVars == <<mGroups, mDone, mGrouped, mFlat, mAcc>>

timeVars == <<dayLen, nowHour>>

streakVars == <<streakFile, sCalled, sAt, sPrev, sRet, sWrote>>

flowVars == <<firstDay, cfg, standupFiles, flow, seen>>

remindVars == <<remindersFile, nLast, nDay, nCount>>

dailyVars == <<timeVars, streakVars, flowVars, remindVars>>

gitVars ==
  <<aggVars, branchVars, fetchVars, parseVars, unpushedVars, findVars, formatVars>>

utilVars == <<parseVars, unpushedVars, findVars, formatVars, dailyVars>>

vars == <<aggVars, branchVars, fetchVars, utilVars>>

Repos == 1..Len(repoPaths)

NoResult == [ready |-> FALSE, repoName |-> <<>>, commits |-> <<>>]

(***************************************************************************)
(* aggregateCommits                                                        *)
(***************************************************************************)
\* repoPaths.map(async repoPath => ...) runs every task up to its first
\* await: every `git log` is spawned before aggregateCommits yields
InitAgg ==
  /\ configLoaded \in BOOLEAN
  /\ completed = <<>>
  /\ repoPaths \in RepoLists
  /\ repoState \in [1..Len(repoPaths) -> RepoStates]
  /\ fetchState = [r \in 1..Len(repoPaths) |-> "running"]
  /\ detectState = [r \in 1..Len(repoPaths) |-> InitialDetectState]
  /\ commitsOf = [r \in 1..Len(repoPaths) |-> <<>>]
  /\ unpushedOf = [r \in 1..Len(repoPaths) |-> {}]
  /\ results = [r \in 1..Len(repoPaths) |-> NoResult]
  /\ aggPc = "running"
  /\ groups = <<>>
  /\ totalCommits = 0

\* the end of the task of repoPaths[r]: mark, and resolve with the result
TaskResult(r, commits, unpushedHashes) ==
  [ready |-> TRUE,
   repoName |-> getRepositoryName(repoPaths[r]),
   commits |-> MarkCommits(commits, unpushedHashes)]

\* `await getCommitsSince(repoPath, since)` resumes; the task goes on to
\* call getUnpushedCommits
FetchReturn(r) ==
  /\ fetchState[r] = "running"
  /\ LET ret == getCommitsSince(repoPaths[r], repoState[r].log, configLoaded)
     IN  /\ fetchState' = [fetchState EXCEPT ![r] = "done"]
         /\ aggPc' = IF ret.threw /\ aggPc = "running" THEN "rejected" ELSE aggPc
         /\ commitsOf' = [commitsOf EXCEPT ![r] = ret.commits]
         /\ detectState' =
              [detectState EXCEPT ![r] = IF @ = "idle" /\ ~ret.threw THEN "running" ELSE @]
         /\ results' =
              IF detectState[r] = "done" /\ ~ret.threw
              THEN StoreResult(results, r, TaskResult(r, ret.commits, unpushedOf[r]))
              ELSE results
         /\ completed' =
              IF detectState[r] = "done" /\ ~ret.threw THEN Append(completed, r)
              ELSE completed
  /\ UNCHANGED <<configLoaded, repoPaths, repoState, unpushedOf, groups,
                 totalCommits, branchVars, fetchVars, utilVars>>

\* `await getUnpushedCommits(repoPath)` resumes; the task marks the commits
\* and returns
DetectReturn(r) ==
  /\ detectState[r] = "running"
  /\ LET unpushedHashes == getUnpushedCommits(repoState[r].refs)
     IN  /\ detectState' = [detectState EXCEPT ![r] = "done"]
         /\ unpushedOf' = [unpushedOf EXCEPT ![r] = unpushedHashes]
         /\ results' =
              IF fetchState[r] = "done"
              THEN StoreResult(results, r, TaskResult(r, commitsOf[r], unpushedHashes))
              ELSE results
         /\ completed' =
              IF fetchState[r] = "done" THEN Append(completed, r) ELSE completed
  /\ UNCHANGED <<configLoaded, repoPaths, repoState, fetchState, commitsOf, aggPc,
                 groups, totalCommits, branchVars, fetchVars, utilVars>>

\* Promise.all resolves; the groups are built, sorted and returned
Finish ==
  /\ aggPc = "running"
  /\ \A r \in Repos : results[r].ready
  /\ LET built == BuildGroups(results, [groups |-> <<>>, totalCommits |-> 0])
     IN  /\ groups' = SortGroups(built.groups)
         /\ totalCommits' = built.totalCommits
  /\ aggPc' = "done"
  /\ UNCHANGED <<configLoaded, repoPaths, repoState, fetchState, detectState,
                 commitsOf, unpushedOf, results, completed, branchVars, fetchVars, utilVars>>

(***************************************************************************)
(* extractBranchName as a call                                             *)
(***************************************************************************)
RefAtoms ==
  {<<"(">>, <<")">>, <<",">>, <<" ">>, HeadArrow, OriginPrefix, TagPrefix, <<"m">>}

\* the decorations of the examples: "(HEAD -> m, origin/m)", "(f-x)",
\* "(origin/m)", "(tag: v, origin/m)", and a detached "(HEAD, origin/m, m)"
RefExamples ==
  { <<"(">> \o HeadArrow \o <<"m", ",", " ">> \o OriginPrefix \o <<"m", ")">>,
    <<"(", "f", "-", "x", ")">>,
    <<"(">> \o OriginPrefix \o <<"m", ")">>,
    <<"(">> \o TagPrefix \o <<" ", "v", ",", " ">> \o OriginPrefix \o <<"m", ")">>,
    <<"(", "H", "E", "A", "D", ",", " ">> \o OriginPrefix \o <<"m", ",", " ", "m", ")">> }

RefStrings ==
  {Concat(atoms) : atoms \in UNION {[1..n -> RefAtoms] : n \in 0..MaxAtoms}}
    \cup RefExamples

BranchIdle ==
  /\ refInput = <<>>
  /\ branchOut = NoBranch
  /\ branchPc = "idle"

InitBranch ==
  /\ refInput \in RefStrings
  /\ branchOut = NoBranch
  /\ branchPc = "called"

ExtractBranch ==
  /\ branchPc = "called"
  /\ branchOut' = extractBranchName(refInput)
  /\ branchPc' = "returned"
  /\ UNCHANGED <<refInput, aggVars, fetchVars, utilVars>>

AggIdle ==
  /\ configLoaded = TRUE
  /\ completed = <<>>
  /\ repoPaths = <<>>
  /\ repoState = <<>>
  /\ fetchState = <<>>
  /\ detectState = <<>>
  /\ commitsOf = <<>>
  /\ unpushedOf = <<>>
  /\ results = <<>>
  /\ aggPc = "idle"
  /\ groups = <<>>
  /\ totalCommits = 0


(***************************************************************************)
(* getCommitsSince as a process: the subprocess, its streams, the timer    *)
(***************************************************************************)
TIMEOUT_MS == 5000

\* the repository of the call
FetchedPath == <<"/", "a", "/", "x">>

ProcPlans ==
  {[lines |-> l, exitCode |-> c] :
     l \in {<<>>, <<Line1>>, <<Line1, Line2>>, <<Line1, BadLine, Line2>>},
     c \in {0, 128}}

\* most whole hours between the cutoff and the call
MaxHours == 2

\* 1000 * 60 * 60
MS_PER_HOUR == 3600000

\* the cutoffs, in milliseconds
SinceInstants == {0, 1}

\* the times of the call: a whole number of hours after 0, or 1, 2 or
\* 1800000 ms later
NowInstants ==
  {k * MS_PER_HOUR + o : k \in 0..MaxHours, o \in {0, 1, 2, 1800000}}

\* variant: the hours are rounded down
HoursAgo_Floor(now, since) == (now - since) \div MS_PER_HOUR

\* Math.ceil((Date.now() - since.getTime()) / (1000 * 60 * 60)); the
\* quotient of two integers of this size is rounded by the division to no
\* other integer than its own floor or ceiling
HoursAgo(now, since) ==
  IF (now - since) % MS_PER_HOUR = 0
  THEN (now - since) \div MS_PER_HOUR
  ELSE (now - since) \div MS_PER_HOUR + 1

NoReturn == [threw |-> FALSE, commits |-> <<>>]

FetchIdle ==
  /\ fPc = "idle"
  /\ fLoaded = TRUE
  /\ fSpawnOk = TRUE
  /\ fSince = 0
  /\ fNow = 0
  /\ fHoursAgo = 0
  /\ procPlan = [lines |-> <<>>, exitCode |-> 0]
  /\ proc = "none"
  /\ written = 0
  /\ stdoutOpen = FALSE
  /\ stderrOpen = FALSE
  /\ exitCode = 0
  /\ timerArmed = FALSE
  /\ killSent = FALSE
  /\ clock = 0
  /\ overdue = FALSE
  /\ fOutput = <<>>
  /\ fReturn = NoReturn

InitFetch ==
  /\ fPc = "called"
  /\ fLoaded \in BOOLEAN
  /\ fSpawnOk \in BOOLEAN
  /\ fSince \in SinceInstants
  /\ fNow = 0
  /\ fHoursAgo = 0
  /\ procPlan \in ProcPlans
  /\ proc = "none"
  /\ written = 0
  /\ stdoutOpen = FALSE
  /\ stderrOpen = FALSE
  /\ exitCode = 0
  /\ timerArmed = FALSE
  /\ killSent = FALSE
  /\ clock = 0
  /\ overdue = FALSE
  /\ fOutput = <<>>
  /\ fReturn = NoReturn

\* the text of the first n lines
RECURSIVE TextOf(_, _)
TextOf(lines, n) ==
  IF n = 0 THEN <<>> ELSE TextOf(lines, n - 1) \o lines[n] \o <<"\n">>

\* lines 216-257: hoursAgo, getConfig, Bun.spawn, setTimeout; an exception
\* of either call is caught and the call returns
Spawn ==
  /\ fPc = "called"
  /\ \E now \in NowInstants :
       /\ now >= fSince
       /\ fNow' = now
       /\ fHoursAgo' = HoursAgo(now, fSince)
  /\ IF fLoaded /\ fSpawnOk
     THEN /\ proc' = "running"
          /\ stdoutOpen' = TRUE
          /\ stderrOpen' = TRUE
          /\ timerArmed' = TRUE
          /\ fPc' = "readStdout"
          /\ fReturn' = fReturn
     ELSE /\ fReturn' = getCommitsSince(FetchedPath,
                          [spawned |-> FALSE, exitCode |-> 0, output |-> <<>>], fLoaded)
          /\ fPc' = "returned"
          /\ UNCHANGED <<proc, stdoutOpen, stderrOpen, timerArmed>>
  /\ UNCHANGED <<fLoaded, fSpawnOk, fSince, procPlan, written, exitCode, killSent,
                 clock, overdue, fOutput, aggVars, branchVars, utilVars>>

\* the subprocess writes its next line
ProcWrite ==
  /\ proc = "running"
  /\ stdoutOpen
  /\ written < Len(procPlan.lines)
  /\ written' = written + 1
  /\ UNCHANGED <<fPc, fLoaded, fSpawnOk, fSince, fNow, fHoursAgo, procPlan, proc, stdoutOpen, stderrOpen,
                 exitCode, timerArmed, killSent, clock, overdue, fOutput, fReturn,
                 aggVars, branchVars, utilVars>>

\* the subprocess closes a stream and goes on running
ProcCloseStdout ==
  /\ proc = "running"
  /\ stdoutOpen
  /\ stdoutOpen' = FALSE
  /\ UNCHANGED <<fPc, fLoaded, fSpawnOk, fSince, fNow, fHoursAgo, procPlan, proc, written, stderrOpen,
                 exitCode, timerArmed, killSent, clock, overdue, fOutput, fReturn,
                 aggVars, branchVars, utilVars>>

ProcCloseStderr ==
  /\ proc = "running"
  /\ stderrOpen
  /\ stderrOpen' = FALSE
  /\ UNCHANGED <<fPc, fLoaded, fSpawnOk, fSince, fNow, fHoursAgo, procPlan, proc, written, stdoutOpen,
                 exitCode, timerArmed, killSent, clock, overdue, fOutput, fReturn,
                 aggVars, branchVars, utilVars>>

\* the subprocess exits of its own accord
ProcExit ==
  /\ proc = "running"
  /\ proc' = "exited"
  /\ exitCode' = procPlan.exitCode
  /\ stdoutOpen' = FALSE
  /\ stderrOpen' = FALSE
  /\ UNCHANGED <<fPc, fLoaded, fSpawnOk, fSince, fNow, fHoursAgo, procPlan, written, timerArmed, killSent,
                 clock, overdue, fOutput, fReturn, aggVars, branchVars, utilVars>>

\* the signalled subprocess dies
ProcDie ==
  /\ proc = "killed"
  /\ proc' = "exited"
  /\ exitCode' = 143
  /\ stdoutOpen' = FALSE
  /\ stderrOpen' = FALSE
  /\ UNCHANGED <<fPc, fLoaded, fSpawnOk, fSince, fNow, fHoursAgo, procPlan, written, timerArmed, killSent,
                 clock, overdue, fOutput, fReturn, aggVars, branchVars, utilVars>>

\* the timer of line 257 is pending and its time has come
TimerDue == timerArmed /\ clock >= TIMEOUT_MS

\* time passes; a timer that is due runs before more time passes and before
\* the call is resumed
Tick ==
  /\ proc # "none"
  /\ fPc # "returned"
  /\ clock < MaxTicks * TIMEOUT_MS
  /\ ~TimerDue
  /\ clock' = clock + TIMEOUT_MS
  /\ overdue' = (overdue \/ (clock' > TIMEOUT_MS /\ proc \in {"running", "killed"}))
  /\ UNCHANGED <<fPc, fLoaded, fSpawnOk, fSince, fNow, fHoursAgo, procPlan, proc, written, stdoutOpen,
                 stderrOpen, exitCode, timerArmed, killSent, fOutput, fReturn,
                 aggVars, branchVars, utilVars>>

\* line 257: setTimeout(() => proc.kill(), TIMEOUT_MS)
TimerFire ==
  /\ TimerDue
  /\ timerArmed' = FALSE
  /\ proc' = IF proc = "running" THEN "killed" ELSE proc
  /\ killSent' = (killSent \/ proc = "running")
  /\ UNCHANGED <<fPc, fLoaded, fSpawnOk, fSince, fNow, fHoursAgo, procPlan, written, stdoutOpen, stderrOpen,
                 exitCode, clock, overdue, fOutput, fReturn, aggVars, branchVars, utilVars>>

\* line 258: await new Response(proc.stdout).text() resumes at end of stream
ReadStdout ==
  /\ fPc = "readStdout"
  /\ ~stdoutOpen
  /\ ~TimerDue
  /\ fOutput' = TextOf(procPlan.lines, written)
  /\ fPc' = "readStderr"
  /\ UNCHANGED <<fLoaded, fSpawnOk, fSince, fNow, fHoursAgo, procPlan, proc, written, stdoutOpen, stderrOpen,
                 exitCode, timerArmed, killSent, clock, overdue, fReturn, aggVars, branchVars, utilVars>>

\* lines 259-260: the read of stderr resumes at end of stream; clearTimeout
ReadStderr ==
  /\ fPc = "readStderr"
  /\ ~stderrOpen
  /\ ~TimerDue
  /\ timerArmed' = FALSE
  /\ fPc' = "awaitExit"
  /\ UNCHANGED <<fLoaded, fSpawnOk, fSince, fNow, fHoursAgo, procPlan, proc, written, stdoutOpen, stderrOpen,
                 exitCode, killSent, clock, overdue, fOutput, fReturn, aggVars, branchVars, utilVars>>

\* lines 262-307: await proc.exited resumes; the exit code is checked, the
\* output parsed, the commits returned
AwaitExit ==
  /\ fPc = "awaitExit"
  /\ proc = "exited"
  /\ fReturn' = getCommitsSince(FetchedPath,
                  [spawned |-> TRUE, exitCode |-> exitCode, output |-> fOutput], fLoaded)
  /\ fPc' = "returned"
  /\ UNCHANGED <<fLoaded, fSpawnOk, fSince, fNow, fHoursAgo, procPlan, proc, written, stdoutOpen, stderrOpen,
                 exitCode, timerArmed, killSent, clock, overdue, fOutput, aggVars, branchVars, utilVars>>

(***************************************************************************)
(* getCommitsSince: one record of `git log`, from the commit to the parsed *)
(* commit                                                                  *)
(***************************************************************************)
\* longest subject of a commit, in characters
MaxSubject == 4

\* what --pretty=format:%H|%aI|%an|%d|%s prints for a commit
FormatRecord(c) ==
  c.hash \o <<"|">> \o c.timestamp \o <<"|">> \o c.author \o <<"|">>
    \o c.decoration \o <<"|">> \o c.subject

\* the subjects: every string of the characters "|", " " and "m"
Subjects == UNION {[1..n -> {"|", " ", "m"}] : n \in 0..MaxSubject}

\* the commits: an author name and a branch name may hold a "|" as well
GitCommits ==
  [hash : {H1},
   timestamp : {<<"t">>},
   author : {<<"u">>, <<"u", "|", "v">>},
   decoration : {<<>>, <<" ", "(", "x", ")">>, <<" ", "(", "x", "|", "y", ")">>},
   subject : Subjects]

NoCommit == [hash |-> <<>>, author |-> <<>>, timestamp |-> <<>>, message |-> <<>>,
             refNames |-> <<>>, isUnpushed |-> FALSE, repoName |-> <<>>,
             branch |-> Undefined]

ParseIdle ==
  /\ pFields = [hash |-> <<>>, timestamp |-> <<>>, author |-> <<>>,
                decoration |-> <<>>, subject |-> <<>>]
  /\ pOut = NoCommit
  /\ pPc = "idle"

InitParse ==
  /\ pFields \in GitCommits
  /\ pOut = NoCommit
  /\ pPc = "called"

\* lines 285-301 for the line git printed for the commit
ParseRecord ==
  /\ pPc = "called"
  /\ ~LineThrows(FormatRecord(pFields))
  /\ pOut' = ParseLine(FormatRecord(pFields), getRepositoryName(FetchedPath))
  /\ pPc' = "returned"
  /\ UNCHANGED <<pFields, aggVars, branchVars, fetchVars, unpushedVars, findVars, formatVars, dailyVars>>

(***************************************************************************)
(* getUnpushedCommits as a process: the listing of the branches and one    *)
(* comparison per branch                                                   *)
(***************************************************************************)
\* most local branches of a repository
MaxBranches == 2

\* the order in which git log prints the commits (newest first)
HashOrder == <<H3, H2, H1>>

\* a local branch: the commits reachable from it, and those reachable from
\* origin/<name> if there is such a ref
BranchStates ==
  [name : {<<"x">>, <<"f", "/", "y">>},
   local : {{H1}, {H1, H2}, {H2, H3}},
   hasRemote : BOOLEAN,
   remote : {{}, {H1}, {H1, H2}}]

\* the repositories: their branches have different names, and a branch
\* without a remote counterpart has no remote commits
HeadLists ==
  {l \in UNION {[1..n -> BranchStates] : n \in 0..MaxBranches} :
     /\ \A i, j \in 1..Len(l) : i # j => l[i].name # l[j].name
     /\ \A i \in 1..Len(l) : ~l[i].hasRemote => l[i].remote = {}}

\* what `git for-each-ref --format=%(refname:short) refs/heads` prints
RECURSIVE ForEachRef(_)
ForEachRef(heads) ==
  IF heads = <<>> THEN <<>>
  ELSE Head(heads).name \o <<"\n">> \o ForEachRef(Tail(heads))

\* what `git log origin/b..b --pretty=format:%H` does for branch b: it fails
\* without origin/b, or when the command fails for another reason, or dies
\* after its first line; otherwise it prints the commits reachable from b
\* and not from origin/b
GitLogRange(b, outcome) ==
  LET ahead == SelectSeq(HashOrder, LAMBDA h : h \in b.local /\ h \notin b.remote)
  IN  IF ~b.hasRemote \/ outcome = "fail"
      THEN [branch |-> b.name, exitCode |-> 128, output |-> <<>>]
      ELSE IF outcome = "cut" /\ ahead # <<>>
      THEN [branch |-> b.name, exitCode |-> 143, output |-> ahead[1] \o <<"\n">>]
      ELSE [branch |-> b.name, exitCode |-> 0, output |-> Join(ahead, "\n")]

\* the branch of the repository that has the name
HeadNamed(heads, name) == heads[CHOOSE i \in 1..Len(heads) : heads[i].name = name]

UnpushedIdle ==
  /\ uHeads = <<>>
  /\ uListOk = TRUE
  /\ uListExit = 0
  /\ uPc = "idle"
  /\ uBranches = <<>>
  /\ uIdx = 1
  /\ uUnpushed = {}
  /\ uRuns = <<>>

InitUnpushed ==
  /\ uHeads \in HeadLists
  /\ uListOk \in BOOLEAN
  /\ uListExit \in {0, 128}
  /\ uPc = "called"
  /\ uBranches = <<>>
  /\ uIdx = 1
  /\ uUnpushed = {}
  /\ uRuns = <<>>

\* lines 314-336: the branches are listed; a spawn that raises is caught at
\* line 360, a listing that fails returns at line 330
ListBranches ==
  /\ uPc = "called"
  /\ IF uListOk /\ uListExit = 0
     THEN /\ uBranches' = SelectSeq(Split(Trim(ForEachRef(uHeads)), "\n"),
                                    LAMBDA b : b # <<>>)
          /\ uPc' = "loop"
     ELSE /\ uBranches' = uBranches
          /\ uPc' = "returned"
  /\ UNCHANGED <<uHeads, uListOk, uListExit, uIdx, uUnpushed, uRuns,
                 aggVars, branchVars, fetchVars, parseVars, findVars, formatVars, dailyVars>>

\* lines 339-359: one iteration; a spawn that raises is caught at line 356
CompareBranch ==
  /\ uPc = "loop"
  /\ uIdx <= Len(uBranches)
  /\ \E outcome \in {"raise", "fail", "cut", "ok"} :
       LET run == GitLogRange(HeadNamed(uHeads, uBranches[uIdx]), outcome)
       IN  /\ uUnpushed' =
                IF outcome = "raise" THEN uUnpushed
                ELSE uUnpushed \cup BranchHashes(run)
           /\ uRuns' = Append(uRuns, [branch |-> uBranches[uIdx],
                                      ok |-> outcome # "raise" /\ run.exitCode = 0])
  /\ uIdx' = uIdx + 1
  /\ UNCHANGED <<uHeads, uListOk, uListExit, uPc, uBranches,
                 aggVars, branchVars, fetchVars, parseVars, findVars, formatVars, dailyVars>>

\* line 364
ReturnUnpushed ==
  /\ uPc = "loop"
  /\ uIdx > Len(uBranches)
  /\ uPc' = "returned"
  /\ UNCHANGED <<uHeads, uListOk, uListExit, uBranches, uIdx, uUnpushed, uRuns,
                 aggVars, branchVars, fetchVars, parseVars, findVars, formatVars, dailyVars>>

(***************************************************************************)
(* findGitRepositories                                                     *)
(***************************************************************************)
\* most repositories under the scan root
MaxFound == 2

\* the string pattern of line 140
DotGit == <<"/", ".", "g", "i", "t">>

\* config.gitScanPath, an existing directory
ScanRoot == <<"/", "r">>

\* a directory that does not exist
MissingRoot == <<"/", "q">>

\* the directories under the scan root that may hold a repository
RepoDirs ==
  { <<"/", "r", "/", "a">>,
    <<"/", "r", "/", "b">>,
    <<"/", "r", "/", "c", "/", "a">>,
    <<"/", "r", "/", ".", "g", "i", "t", "x", "/", "b">>,
    ScanRoot }

FoundLists ==
  {l \in UNION {[1..n -> RepoDirs] : n \in 0..MaxFound} :
     \A i, j \in 1..Len(l) : i # j => l[i] # l[j]}

ExcludeLists == {<<>>, <<<<"a">>>>, <<<<"b">>>>}

\* what find prints: a line for the metadata directory of each repository
RECURSIVE FindOutput(_)
FindOutput(found) ==
  IF found = <<>> THEN <<>>
  ELSE Head(found) \o DotGit \o <<"\n">> \o FindOutput(Tail(found))

\* the run of `find <root> -name .git -type d -maxdepth 3`: a missing root
\* fails without output, a directory that may not be read makes the exit
\* code 1 after the matches were printed
FindRun(root, found, spawnOk, denied) ==
  IF ~spawnOk THEN [spawned |-> FALSE, exitCode |-> 0, output |-> <<>>]
  ELSE IF root # ScanRoot THEN Ran(1, <<>>)
  ELSE Ran(IF denied THEN 1 ELSE 0, FindOutput(found))

\* .map(gitDir => gitDir.replace('/.git', ''))
RECURSIVE MapToRepoPath(_)
MapToRepoPath(gitDirs) ==
  IF gitDirs = <<>> THEN <<>>
  ELSE <<ReplaceFirst(Head(gitDirs), DotGit)>> \o MapToRepoPath(Tail(gitDirs))

\* excludeRepos.includes(name)
Includes(list, name) == \E i \in 1..Len(list) : list[i] = name

\* lines 143-149
FilterExcluded(repos, excludeRepos) ==
  IF Len(excludeRepos) > 0
  THEN SelectSeq(repos, LAMBDA repoPath :
                          ~Includes(excludeRepos, getRepositoryName(repoPath)))
  ELSE repos

\* the call: getConfig() is called before the try block; within it, an
\* exception is caught and an exit code other than 0 returns the empty list
findGitRepositories(loaded, scanArg, excludeRepos, found, spawnOk, denied) ==
  IF ~loaded THEN [threw |-> TRUE, repos |-> <<>>]
  ELSE LET scanPath == IF scanArg = Undefined THEN ScanRoot ELSE scanArg
           run == FindRun(scanPath, found, spawnOk, denied)
       IN  IF ~run.spawned THEN [threw |-> FALSE, repos |-> <<>>]
           ELSE IF run.exitCode # 0 THEN [threw |-> FALSE, repos |-> <<>>]
           ELSE [threw |-> FALSE,
                 repos |-> FilterExcluded(
                             MapToRepoPath(SelectSeq(Split(Trim(run.output), "\n"),
                                                     LAMBDA line : line # <<>>)),
                             excludeRepos)]

FindIdle ==
  /\ gLoaded = TRUE
  /\ gScanArg = Undefined
  /\ gExclude = <<>>
  /\ gFound = <<>>
  /\ gSpawnOk = TRUE
  /\ gDenied = FALSE
  /\ gPc = "idle"
  /\ gOut = [threw |-> FALSE, repos |-> <<>>]

InitFind ==
  /\ gLoaded \in BOOLEAN
  /\ gScanArg \in {Undefined, ScanRoot, MissingRoot}
  /\ gExclude \in ExcludeLists
  /\ gFound \in FoundLists
  /\ gSpawnOk \in BOOLEAN
  /\ gDenied \in BOOLEAN
  /\ gPc = "called"
  /\ gOut = [threw |-> FALSE, repos |-> <<>>]

FindReturn ==
  /\ gPc = "called"
  /\ gOut' = findGitRepositories(gLoaded, gScanArg, gExclude, gFound, gSpawnOk, gDenied)
  /\ gPc' = "returned"
  /\ UNCHANGED <<gLoaded, gScanArg, gExclude, gFound, gSpawnOk, gDenied,
                 aggVars, branchVars, fetchVars, parseVars, unpushedVars, formatVars, dailyVars>>

(***************************************************************************)
(* formatCommitsGrouped, formatCommitsFlat and commitsToAccomplishments    *)
(***************************************************************************)
\* longest commit message, in words of the message atoms
MaxWords == 3
\* most commits of a group
MaxCommits == 2

\* the letter a regular expression with the flag i compares
LowerCase(c) ==
  LET upper == <<"A", "B", "C", "D", "E", "F", "G", "H", "I", "J", "K", "L", "M",
                 "N", "O", "P", "Q", "R", "S", "T", "U", "V", "W", "X", "Y", "Z">>
      lower == <<"a", "b", "c", "d", "e", "f", "g", "h", "i", "j", "k", "l", "m",
                 "n", "o", "p", "q", "r", "s", "t", "u", "v", "w", "x", "y", "z">>
  IN  IF \E i \in 1..26 : upper[i] = c
      THEN lower[CHOOSE i \in 1..26 : upper[i] = c]
      ELSE c

\* variant: the letters are compared as they are
SameIgnoringCase_Exact(a, b) == a = b

SameIgnoringCase(a, b) ==
  /\ Len(a) = Len(b)
  /\ \A i \in 1..Len(a) : LowerCase(a[i]) = LowerCase(b[i])

\* (feat|fix|docs|style|refactor|test|chore|perf)
ConventionalPrefixes ==
  << <<"f", "e", "a", "t">>,
     <<"f", "i", "x">>,
     <<"d", "o", "c", "s">>,
     <<"s", "t", "y", "l", "e">>,
     <<"r", "e", "f", "a", "c", "t", "o", "r">>,
     <<"t", "e", "s", "t">>,
     <<"c", "h", "o", "r", "e">>,
     <<"p", "e", "r", "f">> >>

\* message.replace(/^(feat|fix|docs|style|refactor|test|chore|perf):\s*/i, '')
StripPrefix(message) ==
  LET matches ==
        {i \in 1..Len(ConventionalPrefixes) :
           /\ Len(message) >= Len(ConventionalPrefixes[i]) + 1
           /\ SameIgnoringCase(SubSeq(message, 1, Len(ConventionalPrefixes[i])),
                               ConventionalPrefixes[i])
           /\ message[Len(ConventionalPrefixes[i]) + 1] = ":"}
  IN  IF matches = {} THEN message
      ELSE TrimStart(SubSeq(message, Len(ConventionalPrefixes[Min(matches)]) + 2,
                            Len(message)))

\* the decimal digits of a number in a template string
RECURSIVE NumberToString(_)
NumberToString(n) ==
  LET digits == <<"0", "1", "2", "3", "4", "5", "6", "7", "8", "9">>
  IN  IF n < 10 THEN <<digits[n + 1]>>
      ELSE NumberToString(n \div 10) \o <<digits[(n % 10) + 1]>>

\* commit.branch ? `[${commit.branch}] ` : ''
BranchTag(commit) ==
  IF commit.branch # Undefined /\ commit.branch # <<>>
  THEN <<"[">> \o commit.branch \o <<"]", " ">>
  ELSE <<>>

\* variant: every commit carries the marker
UnpushedMark_Always(kind, commit) ==
  IF kind = "grouped" THEN <<" ", "*", "u", "n", "p", "u", "s", "h", "e", "d", "*">>
  ELSE IF kind = "flat" THEN <<" ", "*", "u", "n", "p", "u", "s", "h", "e", "d">>
  ELSE <<" ", "(", "u", "n", "p", "u", "s", "h", "e", "d", ")">>

\* the marker of an unpushed commit in each of the three formats
UnpushedMark(kind, commit) ==
  IF ~commit.isUnpushed THEN <<>>
  ELSE IF kind = "grouped" THEN <<" ", "*", "u", "n", "p", "u", "s", "h", "e", "d", "*">>
  ELSE IF kind = "flat" THEN <<" ", "*", "u", "n", "p", "u", "s", "h", "e", "d">>
  ELSE <<" ", "(", "u", "n", "p", "u", "s", "h", "e", "d", ")">>

\* variant: the header always shows the unpushed count
UnpushedInfo_Always(group) ==
  <<" ", "(">> \o NumberToString(group.unpushedCount) \o <<" ", "u", "n", "p", "u", "s", "h", "e", "d", ")">>

\* group.unpushedCount > 0 ? ` (${group.unpushedCount} unpushed)` : ''
UnpushedInfo(group) ==
  IF group.unpushedCount > 0
  THEN <<" ", "(">> \o NumberToString(group.unpushedCount) \o <<" ", "u", "n", "p", "u", "s", "h", "e", "d", ")">>
  ELSE <<>>

\* `**${group.repoName}** (${group.commits.length} commits${unpushedInfo})`
GroupedHeader(group) ==
  <<"*", "*">> \o group.repoName \o <<"*", "*", " ", "(">>
    \o NumberToString(Len(group.commits)) \o <<" ", "c", "o", "m", "m", "i", "t", "s">>
    \o UnpushedInfo(group) \o <<")">>

\* the line of a commit; "<rocket>" and "<check>" stand for the two emoji
CommitLine(kind, repoName, commit) ==
  IF kind = "grouped"
  THEN <<"-", " ", IF commit.isUnpushed THEN "<rocket>" ELSE "<check>", " ">>
         \o BranchTag(commit) \o commit.message \o UnpushedMark(kind, commit)
  ELSE <<"[">> \o repoName \o <<"]", " ">> \o BranchTag(commit)
         \o (IF kind = "acc" THEN StripPrefix(commit.message) ELSE commit.message)
         \o UnpushedMark(kind, commit)

\* variant: a line that is already there is not pushed again
PushLine_Unique(lines, line) ==
  IF \E i \in 1..Len(lines) : lines[i] = line THEN lines ELSE Append(lines, line)

\* lines.push(line)
PushLine(lines, line) == Append(lines, line)

\* for (const commit of group.commits)
RECURSIVE PushCommitLines(_, _, _, _)
PushCommitLines(kind, repoName, commits, lines) ==
  IF commits = <<>> THEN lines
  ELSE PushCommitLines(kind, repoName, Tail(commits),
                       PushLine(lines, CommitLine(kind, repoName, Head(commits))))

\* for (const group of groups): the grouped format pushes a header and a
\* blank line before the commits of a group and a blank line after them
RECURSIVE FormatLoop(_, _, _)
FormatLoop(kind, gs, lines) ==
  IF gs = <<>> THEN lines
  ELSE IF kind = "grouped"
  THEN FormatLoop(kind, Tail(gs),
         PushLine(PushCommitLines(kind, Head(gs).repoName, Head(gs).commits,
                    PushLine(PushLine(lines, GroupedHeader(Head(gs))), <<>>)),
                  <<>>))
  ELSE FormatLoop(kind, Tail(gs),
         PushCommitLines(kind, Head(gs).repoName, Head(gs).commits, lines))

formatCommitsGrouped(gs) == FormatLoop("grouped", gs, <<>>)

formatCommitsFlat(gs) == FormatLoop("flat", gs, <<>>)

commitsToAccomplishments(gs) == FormatLoop("acc", gs, <<>>)

\* the messages: up to MaxWords of the atoms, and one message for each of
\* the other prefixes and for texts that only look like a prefix
Messages ==
  {Concat(w) : w \in UNION {[1..n -> {<<"f", "e", "a", "t">>, <<"F", "i", "x">>, <<":">>, <<" ">>, <<"x">>}] :
                              n \in 0..MaxWords}}
    \cup { <<"d", "o", "c", "s", ":", " ", "x">>, <<"s", "t", "y", "l", "e", ":", "x">>, <<"r", "e", "f", "a", "c", "t", "o", "r", ":", " ", "x">>,
           <<"t", "e", "s", "t", ":", " ", "x">>, <<"c", "h", "o", "r", "e", ":", " ", "x">>, <<"P", "E", "R", "F", ":", " ", " ", "x">>,
           <<"f", "e", "a", "t", "u", "r", "e", ":", " ", "x">>, <<"f", "e", "a", "t", "(", "x", ")", ":", " ", "y">>, <<"x", " ", "f", "e", "a", "t", ":", " ", "y">>,
           <<"f", "e", "a", "t", ":", " ", "f", "i", "x", ":", " ", "x">> }

\* a commit as aggregateCommits leaves it
FormatCommit(message, branch, isUnpushed) ==
  [hash |-> H1, author |-> <<"u">>, timestamp |-> <<"t">>, message |-> message,
   refNames |-> <<>>, isUnpushed |-> isUnpushed, repoName |-> <<>>, branch |-> branch]

\* the commit lists of the groups: two commits alike but for the push
\* status, one with a branch and a prefix, one with a branch
CommitLists ==
  LET cs == { FormatCommit(<<"x">>, Undefined, FALSE),
              FormatCommit(<<"x">>, Undefined, TRUE),
              FormatCommit(<<"f", "i", "x", ":", " ", "y">>, <<"m">>, TRUE),
              FormatCommit(<<"x">>, <<"m">>, FALSE) }
  IN  UNION {[1..n -> cs] : n \in 1..MaxCommits}

\* the groups given to the formatters: one group of one commit with any of
\* the messages, or group A alone, or groups A and B
FormatInputs ==
  {<<MakeGroup([repoName |-> <<"A">>,
                commits |-> <<FormatCommit(m, b, u)>>])>> :
     m \in Messages, b \in {Undefined, <<"m">>}, u \in BOOLEAN}
    \cup {<<MakeGroup([repoName |-> <<"A">>, commits |-> l])>> : l \in CommitLists}
    \cup {<<MakeGroup([repoName |-> <<"A">>, commits |-> l]),
            MakeGroup([repoName |-> <<"B">>, commits |-> k])>> :
           l \in CommitLists, k \in CommitLists}

FormatIdle ==
  /\ mGroups = <<>>
  /\ mDone = {}
  /\ mGrouped = <<>>
  /\ mFlat = <<>>
  /\ mAcc = <<>>

InitFormat ==
  /\ mGroups \in FormatInputs
  /\ mDone = {}
  /\ mGrouped = <<>>
  /\ mFlat = <<>>
  /\ mAcc = <<>>

FormatGrouped ==
  /\ "grouped" \notin mDone
  /\ mGrouped' = formatCommitsGrouped(mGroups)
  /\ mDone' = mDone \cup {"grouped"}
  /\ UNCHANGED <<mGroups, mFlat, mAcc, aggVars, branchVars, fetchVars,
                 parseVars, unpushedVars, findVars, dailyVars>>

FormatFlat ==
  /\ "flat" \notin mDone
  /\ mFlat' = formatCommitsFlat(mGroups)
  /\ mDone' = mDone \cup {"flat"}
  /\ UNCHANGED <<mGroups, mGrouped, mAcc, aggVars, branchVars, fetchVars,
                 parseVars, unpushedVars, findVars, dailyVars>>

ToAccomplishments ==
  /\ "acc" \notin mDone
  /\ mAcc' = commitsToAccomplishments(mGroups)
  /\ mDone' = mDone \cup {"acc"}
  /\ UNCHANGED <<mGroups, mGrouped, mFlat, aggVars, branchVars, fetchVars,
                 parseVars, unpushedVars, findVars, dailyVars>>

(***************************************************************************)
(* Local time.  The clock counts hours from the first local midnight.  A   *)
(* local day has 24 hours, except the day the clocks go forward (23) and   *)
(* the day they go back (25).  format(date, 'yyyy-MM-dd') gives the local  *)
(* calendar day of an instant: the day is modelled by its number and the   *)
(* string by the one-element sequence holding it, '' by the empty one.     *)
(***************************************************************************)
MaxDays == 3

MS_PER_DAY == 86400000

HOURS_PER_DAY == MS_PER_DAY \div MS_PER_HOUR

Days == 0..(MaxDays - 1)

DayLengths == {23, 24, 25}

\* the calendars with at most one day of a clock change
Calendars ==
  {len \in [Days -> DayLengths] :
     Cardinality({d \in Days : len[d] # HOURS_PER_DAY}) <= 1}

\* the instant of the local midnight that starts the day d
RECURSIVE StartOf(_, _)
StartOf(len, d) ==
  IF d <= 0 THEN HOURS_PER_DAY * d ELSE StartOf(len, d - 1) + len[d - 1]

LastHour(len) == StartOf(len, MaxDays) - 1

\* the local calendar day that holds the instant t; as a day has from 23
\* to 25 hours, it lies between t / 25 and t / 23
DayOf(len, t) ==
  IF t < 0 THEN t \div HOURS_PER_DAY
  ELSE CHOOSE d \in Days \cap ((t \div 25)..(t \div 23)) :
         StartOf(len, d) <= t /\ t < StartOf(len, d + 1)

FormatDate(len, t) == <<DayOf(len, t)>>

ClockIdle ==
  /\ dayLen = [d \in Days |-> HOURS_PER_DAY]
  /\ nowHour = 0

InitClock ==
  /\ dayLen \in Calendars
  /\ nowHour = 0

(***************************************************************************)
(* The streak: getStreakData and updateStreak (index.ts)                   *)
(***************************************************************************)
NoFile == [exists |-> FALSE]

InitialStreak == [current |-> 0, longest |-> 0, lastStandup |-> <<>>]

StreakFileOf(streak) == [exists |-> TRUE, data |-> streak]

getStreakData(file) == IF file.exists THEN file.data ELSE InitialStreak

Max_Left(a, b) == a

Max(a, b) == IF a >= b THEN a ELSE b

\* the branches of lines 96-105
NextCurrent(streak, yesterday) ==
  IF streak.lastStandup = yesterday THEN streak.current + 1
  ELSE IF streak.lastStandup = <<>> THEN 1
  ELSE 1

\* what the call returns, what STREAK_FILE holds after it, whether it wrote
updateStreak(file, len, t) ==
  LET streak    == getStreakData(file)
      today     == FormatDate(len, t)
      yesterday == FormatDate(len, t - HOURS_PER_DAY)
      current   == NextCurrent(streak, yesterday)
      updated   == [current     |-> current,
                    longest     |-> Max(streak.longest, current),
                    lastStandup |-> today]
  IN  IF streak.lastStandup = today
        THEN [ret |-> streak, file |-> file, wrote |-> FALSE]
        ELSE [ret |-> updated, file |-> StreakFileOf(updated), wrote |-> TRUE]

StreakIdle ==
  /\ streakFile = NoFile
  /\ sCalled = FALSE
  /\ sAt = 0
  /\ sPrev = InitialStreak
  /\ sRet = InitialStreak
  /\ sWrote = FALSE

InitStreak == StreakIdle

\* an hour passes
ClockTick ==
  /\ nowHour < LastHour(dayLen)
  /\ nowHour' = nowHour + 1
  /\ UNCHANGED <<dayLen, streakVars, flowVars, remindVars, gitVars>>

UpdateStreak ==
  LET r == updateStreak(streakFile, dayLen, nowHour)
  IN  /\ streakFile' = r.file
      /\ sCalled' = TRUE
      /\ sAt' = nowHour
      /\ sPrev' = getStreakData(streakFile)
      /\ sRet' = r.ret
      /\ sWrote' = r.wrote
      /\ UNCHANGED <<timeVars, flowVars, remindVars, gitVars>>

(***************************************************************************)
(* getSmartTimeRangeOptions (index.ts).  An option value is String(hours)  *)
(* or 'custom': it is modelled by a record, the string of a number by the  *)
(* number.                                                                 *)
(***************************************************************************)
\* Date.prototype.getDay: 0 = Sunday .. 6 = Saturday
WeekDays == 0..6

getDay(first, len, t) == (first + (DayOf(len, t) % 7)) % 7

hoursSinceDay(currentDay, targetDay) ==
  LET daysAgo == currentDay - targetDay
  IN  (IF daysAgo <= 0 THEN daysAgo + 7 ELSE daysAgo) * 24

getRecommendedDay(currentDay) ==
  IF currentDay = 1 THEN 5
  ELSE IF currentDay = 2 \/ currentDay = 3 THEN 1
  ELSE IF currentDay = 4 \/ currentDay = 5 THEN 1
  ELSE IF currentDay = 6 \/ currentDay = 0 THEN 5
  ELSE -1

weekdays ==
  << [day |-> 1, name |-> "Monday"],
     [day |-> 2, name |-> "Tuesday"],
     [day |-> 3, name |-> "Wednesday"],
     [day |-> 4, name |-> "Thursday"],
     [day |-> 5, name |-> "Friday"] >>

HoursValue(hours) == [kind |-> "hours", hours |-> hours]

CustomValue == [kind |-> "custom", hours |-> 0]

WeekdayOption(currentDay, w) ==
  [value |-> HoursValue(hoursSinceDay(currentDay, w.day)),
   label |-> <<"Since", w.name>>,
   hint  |-> IF w.day = getRecommendedDay(currentDay) THEN "Recommended" ELSE ""]

\* the test of line 190
IsShown(hours) == hours > 0 /\ hours <= 168

\* the loop of lines 187-203: the options of the weekdays from place i on,
\* the recommended one alone or all the others
RECURSIVE WeekdayOptionsFrom(_, _, _)
WeekdayOptionsFrom(currentDay, i, recommended) ==
  IF i > Len(weekdays) THEN <<>>
  ELSE LET w    == weekdays[i]
           rest == WeekdayOptionsFrom(currentDay, i + 1, recommended)
       IN  IF /\ IsShown(hoursSinceDay(currentDay, w.day))
              /\ (w.day = getRecommendedDay(currentDay)) = recommended
             THEN <<WeekdayOption(currentDay, w)>> \o rest
             ELSE rest

getSmartTimeRangeOptions(currentDay) ==
  WeekdayOptionsFrom(currentDay, 1, TRUE)
    \o <<[value |-> HoursValue(24), label |-> <<"Since", "yesterday">>]>>
    \o WeekdayOptionsFrom(currentDay, 1, FALSE)
    \o <<[value |-> HoursValue(168), label |-> <<"Last week (7 days)">>]>>
    \o <<[value |-> CustomValue, label |-> <<"Custom hours">>]>>

(***************************************************************************)
(* The standup flows: runStandup and runAutoStandup (index.ts).  One       *)
(* action per prompt: it takes the user's reply and runs the code up to    *)
(* the next prompt.  A run is short: the clock stands still during it.     *)
(* Lists of text are sequences of items; an item is known by where it came *)
(* from: the commits, the AI, or the keyboard.                             *)
(***************************************************************************)
MaxItems == 1

\* commitsToAccomplishments(gitResult.groups) when there are commits
GitList == <<"from git">>

\* what improveAccomplishments returns when it succeeds
ImprovedList == <<"from AI">>

AiSuggestion == <<"suggested by AI">>

TypedItem == "typed"

SkippedSection == <<"None">>

AbsentFile == [exists |-> FALSE]

EarlierStandup == [exists |-> TRUE, by |-> "earlier", accomplishments |-> <<"earlier">>]

\* the configurations: AI on or off; every question asked, with no
\* additional field or with one of either type; or no question but the mood
Configs ==
  {[enableAI |-> ai, accomplishments |-> q, blockers |-> q, todaysPlan |-> q,
    field |-> f] :
     ai \in BOOLEAN, q \in {TRUE}, f \in {"none", "multiline", "text"}}
    \cup
  {[enableAI |-> ai, accomplishments |-> FALSE, blockers |-> FALSE,
    todaysPlan |-> FALSE, field |-> "none"] : ai \in BOOLEAN}

DefaultConfig ==
  [enableAI |-> FALSE, accomplishments |-> TRUE, blockers |-> TRUE,
   todaysPlan |-> TRUE, field |-> "none"]

IdleRun ==
  [mode |-> "idle", pc |-> "idle", q |-> "",
   gitAccomplishments |-> <<>>, options |-> <<>>,
   moodLabel |-> "", accomplishments |-> Undefined,
   blockers |-> Undefined, todaysPlan |-> Undefined, field |-> Undefined,
   items |-> <<>>, end |-> ""]

NothingSeen ==
  [hadFile |-> FALSE, overwrite |-> "unasked", confirmed |-> {},
   cancelAt |-> "", restarted |-> FALSE, menu |-> "", manual |-> FALSE,
   beforeAI |-> <<>>, writes |-> 0]

\* the values of the locals at the top of the loop of line 559
FreshLocals(r) ==
  [r EXCEPT !.q = "", !.gitAccomplishments = <<>>, !.options = <<>>,
            !.moodLabel = "",
            !.accomplishments = Undefined, !.blockers = Undefined,
            !.todaysPlan = Undefined, !.field = Undefined, !.items = <<>>]

\* process.exit, or the end of the process by an exception
Exit(r, how) == [r EXCEPT !.pc = "ended", !.end = how]

\* history: a cancel was the reply at the prompt named
CancelledAt(s, prompt) == [s EXCEPT !.cancelAt = prompt]

\* history: the question ended with an answer the user accepted
Accepted(s, q) == [s EXCEPT !.confirmed = @ \cup {q}]

\* history: what was chosen last in the menu of the commits ('keep' right
\* after a declined improvement is told apart), and the list held before
\* the improvement last declined
Chose(s, what) ==
  IF what = "keep" /\ s.menu = "declined"
    THEN [s EXCEPT !.menu = "keep after declined"]
  ELSE IF what = "declined" THEN [s EXCEPT !.menu = what]
  ELSE [s EXCEPT !.menu = what, !.beforeAI = <<>>]

\* an AI suggestion is on offer only when AI is enabled, there are commits,
\* Ollama answers and gives something (lines 707-719, 946-955, 1026-1035)
AiOffers(c, git) == IF c.enableAI /\ git # <<>> THEN BOOLEAN ELSE {FALSE}

\* the AI menu entry needs only Ollama (lines 809-817)
AiMenuOffers(c) == IF c.enableAI THEN BOOLEAN ELSE {FALSE}

EnterMood(r) == [r EXCEPT !.pc = "mood", !.q = "mood"]

\* lines 1101-1148: the additional fields, one at most in the model
AdvanceField(r, c) ==
  IF c.field = "none" THEN {[r EXCEPT !.pc = "save", !.q = ""]}
  ELSE IF c.field = "multiline"
    THEN {[r EXCEPT !.pc = "askText", !.q = "field", !.items = <<>>]}
  ELSE {[r EXCEPT !.pc = "fieldText", !.q = "field"]}

\* lines 1021-1099
AdvancePlan(r, c) ==
  IF ~c.todaysPlan THEN AdvanceField([r EXCEPT !.todaysPlan = <<>>], c)
  ELSE {[r EXCEPT !.pc = IF ai THEN "useAiPlan" ELSE "askText",
                  !.q = "plan", !.items = <<>>] :
          ai \in AiOffers(c, r.gitAccomplishments)}

\* lines 941-1019
AdvanceBlockers(r, c) ==
  IF ~c.blockers THEN AdvancePlan([r EXCEPT !.blockers = <<>>], c)
  ELSE {[r EXCEPT !.pc = IF ai THEN "useAiBlockers" ELSE "askText",
                  !.q = "blockers", !.items = <<>>] :
          ai \in AiOffers(c, r.gitAccomplishments)}

\* the top of the loop of line 779
AccomplishmentsLoop(r) ==
  [r EXCEPT !.pc = IF Len(r.gitAccomplishments) > 0 THEN "useGit" ELSE "askText",
            !.q = "acc", !.items = <<>>]

\* lines 774-939
AdvanceAccomplishments(r, c) ==
  IF ~c.accomplishments THEN AdvanceBlockers([r EXCEPT !.accomplishments = <<>>], c)
  ELSE {AccomplishmentsLoop(r)}

\* where the flow goes once the question q has its answer
After(r, c, q) ==
  CASE q = "mood"     -> AdvanceAccomplishments(r, c)
    [] q = "acc"      -> AdvanceBlockers(r, c)
    [] q = "blockers" -> AdvancePlan(r, c)
    [] q = "plan"     -> AdvanceField(r, c)
    [] q = "field"    -> {[r EXCEPT !.pc = "save", !.q = ""]}

\* the answer v is stored for the question q.  Of the blockers, the plan
\* and the additional field the model keeps only that they have an answer:
\* the flow never reads them again before it writes them to the file.
Answered == <<"answered">>

SetAnswer(r, q, v) ==
  CASE q = "acc"      -> [r EXCEPT !.accomplishments = v]
    [] q = "blockers" -> [r EXCEPT !.blockers = Answered]
    [] q = "plan"     -> [r EXCEPT !.todaysPlan = Answered]
    [] q = "field"    -> [r EXCEPT !.field = Answered]

\* askMultiLineQuestion returns v: the caller stores it and asks to confirm
AskReturns(r, v) ==
  [SetAnswer(r, r.q, v) EXCEPT !.pc = "confirm", !.items = <<>>]

\* lines 908-910 after the menu of the commits is left
AfterGitMenu(r, c) ==
  IF Len(r.accomplishments) > 0 THEN AdvanceBlockers(r, c)
  ELSE {[r EXCEPT !.pc = "askText", !.items = <<>>]}

\* `restart = true` and the `continue` that follows it
Restart(r) == [FreshLocals(r) EXCEPT !.pc = "scanGit"]

\* history: the pass is abandoned
Restarted(s) ==
  [s EXCEPT !.restarted = TRUE, !.confirmed = {}, !.menu = "",
            !.manual = FALSE, !.beforeAI = <<>>]

\* the replies for which the existing standup is kept (lines 338, 546-554)
KeepsExisting_NoOnly(reply) == reply = "no"

KeepsExisting(reply) == reply \in {"cancel", "no"}

FlowIdle ==
  /\ firstDay = 0
  /\ cfg = DefaultConfig
  /\ standupFiles = [d \in Days |-> AbsentFile]
  /\ flow = IdleRun
  /\ seen = NothingSeen

\* the standups done before the run and the streak they left
StandupHistories ==
  { [files  |-> [d \in Days |-> AbsentFile],
     streak |-> NoFile],
    [files  |-> [d \in Days |-> IF d = 0 THEN EarlierStandup ELSE AbsentFile],
     streak |-> StreakFileOf([current |-> 1, longest |-> 1, lastStandup |-> <<0>>])],
    [files  |-> [d \in Days |-> IF d <= 1 THEN EarlierStandup ELSE AbsentFile],
     streak |-> StreakFileOf([current |-> 2, longest |-> 2, lastStandup |-> <<1>>])],
    [files  |-> [d \in Days |-> IF d = 1 THEN EarlierStandup ELSE AbsentFile],
     streak |-> StreakFileOf([current |-> 1, longest |-> 3, lastStandup |-> <<1>>])] }

\* a run on the second day of the calendar, at nine in the morning
InitFlow ==
  /\ dayLen = [d \in Days |-> HOURS_PER_DAY]
  /\ nowHour = HOURS_PER_DAY + 9
  /\ firstDay \in WeekDays
  /\ cfg \in Configs
  /\ \E h \in StandupHistories :
       /\ standupFiles = h.files
       /\ streakFile = h.streak
  /\ sCalled = FALSE
  /\ sAt = 0
  /\ sPrev = InitialStreak
  /\ sRet = InitialStreak
  /\ sWrote = FALSE
  /\ flow = IdleRun
  /\ seen = NothingSeen

Today == DayOf(dayLen, nowHour)

\* a step that writes no file
Step(r, s) ==
  /\ flow' = r
  /\ seen' = s
  /\ UNCHANGED <<firstDay, cfg, standupFiles, timeVars, streakVars, remindVars, gitVars>>

\* Bun.write(filepath, markdown) and updateStreak(), then the end of the run
SaveAndEnd(r, s, text) ==
  LET u == updateStreak(streakFile, dayLen, nowHour)
  IN  /\ standupFiles' = [standupFiles EXCEPT ![Today] = text]
      /\ streakFile' = u.file
      /\ sCalled' = TRUE
      /\ sAt' = nowHour
      /\ sPrev' = getStreakData(streakFile)
      /\ sRet' = u.ret
      /\ sWrote' = u.wrote
      /\ flow' = Exit(r, "saved")
      /\ seen' = [s EXCEPT !.writes = @ + 1]
      /\ UNCHANGED <<firstDay, cfg, timeVars, remindVars, gitVars>>

\* lines 531-557 and 320-324: the check for today's file
StartRun ==
  /\ flow.mode = "idle"
  /\ \E mode \in {"interactive", "auto"} :
       LET had == standupFiles[Today].exists
           r   == [flow EXCEPT !.mode = mode,
                     !.pc = IF had THEN "overwrite"
                            ELSE IF mode = "auto" THEN "generate" ELSE "scanGit"]
       IN  Step(r, [seen EXCEPT !.hadFile = had])

\* 'Do you want to overwrite this standup?' (lines 333-341, 541-554)
OverwriteReply ==
  /\ flow.pc = "overwrite"
  /\ \E reply \in {"yes", "no", "cancel"} :
       LET s == [seen EXCEPT !.overwrite = reply]
       IN  IF KeepsExisting(reply)
             THEN Step(Exit(flow, IF reply = "cancel" /\ flow.mode = "interactive"
                                   THEN "cancelled" ELSE "kept"),
                       IF reply = "cancel" THEN CancelledAt(s, "overwrite") ELSE s)
             ELSE Step([flow EXCEPT !.pc = IF flow.mode = "auto" THEN "generate"
                                          ELSE "scanGit"], s)

\* runAutoStandup from line 346 on
AutoGenerate ==
  /\ flow.pc = "generate"
  /\ \E outcome \in {"no git", "no repos", "no commits", "throws", "ok"} :
       IF outcome = "ok"
         THEN SaveAndEnd(flow, seen,
                [exists |-> TRUE, by |-> "auto", accomplishments |-> <<"summary">>])
         ELSE Step(Exit(flow, "failed"), seen)

\* 'Scan git repos for recent commits?' (lines 584-612)
ScanGitReply ==
  /\ flow.pc = "scanGit"
  /\ \E reply \in {"yes", "no", "cancel"}, gitInstalled \in BOOLEAN,
        repos \in {"none", "some"} :
       LET s == [seen EXCEPT !.restarted = FALSE]
       IN  IF reply = "cancel"
             THEN Step(Exit(flow, "cancelled"), CancelledAt(s, "scanGit"))
           ELSE IF reply = "yes" /\ gitInstalled /\ repos = "some"
             THEN Step([flow EXCEPT !.pc = "timeRange",
                          !.options = getSmartTimeRangeOptions(
                                        getDay(firstDay, dayLen, nowHour))], s)
           ELSE Step(EnterMood(flow), s)

\* lines 649-689 once hoursToGoBack is known: aggregateCommits finds
\* commits in the range, or finds none, or fails
AfterRange(r, hoursToGoBack) ==
  IF hoursToGoBack > 0
    THEN {[r EXCEPT !.pc = "displayFormat"], EnterMood(r)}
    ELSE {EnterMood(r)}

\* 'How far back to scan for commits?' (lines 615-647)
TimeRangeReply ==
  /\ flow.pc = "timeRange"
  /\ \/ Step(Exit(flow, "cancelled"), CancelledAt(seen, "timeRange"))
     \/ \E i \in 1..Len(flow.options) :
          LET timeRange == flow.options[i].value
          IN  IF timeRange = CustomValue
                THEN Step([flow EXCEPT !.pc = "customHours"], seen)
                ELSE \E r \in AfterRange(flow, timeRange.hours) : Step(r, seen)

\* 'How many hours back?' (lines 628-644)
CustomHoursReply ==
  /\ flow.pc = "customHours"
  /\ \/ Step(Exit(flow, "cancelled"), CancelledAt(seen, "customHours"))
     \/ \E customHours \in {1, 72} :
          \E r \in AfterRange(flow, customHours) : Step(r, seen)

\* 'How to display commits?' (lines 658-681)
DisplayFormatReply ==
  /\ flow.pc = "displayFormat"
  /\ \E reply \in {"grouped", "flat", "cancel"} :
       IF reply = "cancel"
         THEN Step(Exit(flow, "cancelled"), CancelledAt(seen, "displayFormat"))
         ELSE Step(EnterMood([flow EXCEPT !.gitAccomplishments = GitList]), seen)

\* 'How are you feeling today?' (lines 727-760)
MoodReply ==
  /\ flow.pc = "mood"
  /\ \E moodChoice \in {"preset", "custom", "ai-suggestion", "cancel"},
        offered \in AiOffers(cfg, flow.gitAccomplishments) :
       /\ moodChoice = "ai-suggestion" => offered
       /\ IF moodChoice = "cancel"
            THEN Step(Exit(flow, "cancelled"), CancelledAt(seen, "mood"))
          ELSE IF moodChoice = "custom"
            THEN Step([flow EXCEPT !.pc = "customMood"], seen)
          ELSE Step([flow EXCEPT !.pc = "confirm", !.moodLabel = "chosen"], seen)

\* 'Describe your mood:' (lines 743-754)
CustomMoodReply ==
  /\ flow.pc = "customMood"
  /\ \E reply \in {"text", "cancel"} :
       IF reply = "cancel"
         THEN Step(Exit(flow, "cancelled"), CancelledAt(seen, "customMood"))
         ELSE Step([flow EXCEPT !.pc = "confirm", !.moodLabel = "chosen"], seen)

\* confirmAnswer (lines 291-308) and what each caller does with its result
ConfirmReply ==
  /\ flow.pc = "confirm"
  /\ \E reply \in {"yes", "edit", "restart", "cancel"} :
       LET confirmation == IF reply = "cancel" THEN "restart" ELSE reply
       IN  IF confirmation = "restart"
             THEN Step(Restart(flow), Restarted(seen))
           ELSE IF confirmation = "yes"
             THEN \E r \in After(flow, cfg, flow.q) : Step(r, Accepted(seen, flow.q))
           ELSE IF flow.q = "mood" THEN Step([flow EXCEPT !.pc = "mood"], seen)
           ELSE IF flow.q = "acc" THEN Step(AccomplishmentsLoop(flow), seen)
           ELSE Step([flow EXCEPT !.pc = "askText", !.items = <<>>], seen)

\* 'Use git commits as accomplishments?' (lines 782-793)
UseGitReply ==
  /\ flow.pc = "useGit"
  /\ \E reply \in {"yes", "no", "cancel"} :
       IF reply = "cancel"
         THEN Step(Exit(flow, "cancelled"), CancelledAt(seen, "useGit"))
       ELSE IF reply = "yes"
         THEN Step([flow EXCEPT !.pc = "gitMenu",
                      !.accomplishments = flow.gitAccomplishments],
                   [seen EXCEPT !.menu = "", !.beforeAI = <<>>])
       ELSE Step([flow EXCEPT !.pc = "askText", !.items = <<>>], seen)

\* 'What would you like to do?' (lines 796-910)
GitMenuReply ==
  /\ flow.pc = "gitMenu"
  /\ \E editChoice \in {"keep", "ai-improve", "add", "edit", "cancel"},
        offered \in AiMenuOffers(cfg),
        improved \in {"throws", "empty", "improved"} :
       /\ editChoice = "ai-improve" => offered
       /\ IF editChoice = "cancel"
            THEN Step(Exit(flow, "cancelled"), CancelledAt(seen, "gitMenu"))
          ELSE IF editChoice \in {"keep", "edit"}
            THEN \E r \in AfterGitMenu(flow, cfg) :
                   Step(r, Accepted(Chose(seen, editChoice), "acc"))
          ELSE IF editChoice = "add"
            THEN Step([flow EXCEPT !.pc = "addItem"], Chose(seen, "add"))
          ELSE IF improved = "improved"
            THEN Step([flow EXCEPT !.pc = "acceptImproved",
                         !.accomplishments = ImprovedList],
                      [seen EXCEPT !.menu = "ai-improve",
                                   !.beforeAI = flow.accomplishments])
          ELSE Step(flow, Chose(seen, "ai-failed"))

\* 'Use these AI-improved descriptions?' (lines 846-859)
AcceptImprovedReply ==
  /\ flow.pc = "acceptImproved"
  /\ \E reply \in {"yes", "no", "cancel"} :
       IF reply = "cancel"
         THEN Step(Exit(flow, "cancelled"), CancelledAt(seen, "acceptImproved"))
       ELSE IF reply = "yes"
         THEN \E r \in AfterGitMenu(flow, cfg) :
                Step(r, Accepted(Chose(seen, "accepted"), "acc"))
       ELSE Step([flow EXCEPT !.pc = "gitMenu"], Chose(seen, "declined"))

\* 'Add another accomplishment?' (lines 876-889, 900, 908)
AddItemReply ==
  /\ flow.pc = "addItem"
  /\ \E reply \in {"empty", "text", "cancel"} :
       IF reply = "cancel"
         THEN Step(Exit(flow, "cancelled"), CancelledAt(seen, "addItem"))
       ELSE IF reply = "empty"
         THEN \E r \in AfterGitMenu(flow, cfg) : Step(r, Accepted(seen, "acc"))
       ELSE /\ Len(flow.accomplishments) <= MaxItems
            /\ Step([flow EXCEPT !.pc = "addAnother",
                       !.accomplishments = Append(@, TypedItem)], seen)

\* 'Add another?' (lines 891-900, 908)
AddAnotherReply ==
  /\ flow.pc = "addAnother"
  /\ \E reply \in {"yes", "no", "cancel"} :
       IF reply = "yes"
         THEN Step([flow EXCEPT !.pc = "addItem"], seen)
         ELSE \E r \in AfterGitMenu(flow, cfg) :
                Step(r, Accepted(IF reply = "cancel"
                                   THEN CancelledAt(seen, "addAnother")
                                   ELSE seen, "acc"))

\* how the process ends when askMultiLineQuestion returns p.cancel(): the
\* caller exits if the value is the cancel symbol, and fails on it otherwise
AskCancelEnds == {"cancelled", "crashed"}

\* askMultiLineQuestion: the text prompt (lines 238-274)
AskTextReply ==
  /\ flow.pc = "askText"
  /\ \E reply \in {"empty", "text", "cancel"}, how \in AskCancelEnds :
       IF reply = "cancel"
         THEN Step(Exit(flow, how), CancelledAt(seen, "askText"))
       ELSE IF reply = "empty"
         THEN IF Len(flow.items) > 0
                THEN Step(AskReturns(flow, flow.items),
                          [seen EXCEPT !.manual = @ \/ flow.q = "acc"])
                ELSE Step([flow EXCEPT !.pc = "askSkip"], seen)
       ELSE /\ Len(flow.items) < MaxItems
            /\ Step([flow EXCEPT !.pc = "askMore", !.items = Append(@, TypedItem)],
                    seen)

\* askMultiLineQuestion: 'Skip this section?' (lines 256-269)
AskSkipReply ==
  /\ flow.pc = "askSkip"
  /\ \E reply \in {"yes", "no", "cancel"}, how \in AskCancelEnds :
       IF reply = "cancel"
         THEN Step(Exit(flow, how), CancelledAt(seen, "askSkip"))
       ELSE IF reply = "yes"
         THEN Step(AskReturns(flow, SkippedSection),
                   [seen EXCEPT !.manual = @ \/ flow.q = "acc"])
       ELSE Step([flow EXCEPT !.pc = "askText"], seen)

\* askMultiLineQuestion: 'Add another item?' (lines 277-288)
AskMoreReply ==
  /\ flow.pc = "askMore"
  /\ \E reply \in {"yes", "no", "cancel"} :
       IF reply = "yes"
         THEN Step([flow EXCEPT !.pc = "askText"], seen)
         ELSE Step(AskReturns(flow, flow.items),
                   [(IF reply = "cancel" THEN CancelledAt(seen, "askMore") ELSE seen)
                      EXCEPT !.manual = @ \/ flow.q = "acc"])

\* 'Use these AI-detected blockers?' and 'Use these AI suggestions for
\* today's plan?' (lines 958-979, 1038-1059)
UseAiReply ==
  /\ flow.pc \in {"useAiBlockers", "useAiPlan"}
  /\ \E reply \in {"yes", "no", "cancel"} :
       IF reply = "cancel"
         THEN Step(Exit(flow, "cancelled"), CancelledAt(seen, flow.pc))
       ELSE IF reply = "yes"
         THEN Step([SetAnswer(flow, flow.q, AiSuggestion) EXCEPT !.pc = "confirm"], seen)
       ELSE Step([flow EXCEPT !.pc = "askText", !.items = <<>>], seen)

\* an additional field of type text (lines 1129-1140)
FieldTextReply ==
  /\ flow.pc = "fieldText"
  /\ \E reply \in {"text", "cancel"} :
       IF reply = "cancel"
         THEN Step(Exit(flow, "cancelled"), CancelledAt(seen, "fieldText"))
         ELSE Step([flow EXCEPT !.pc = "save", !.q = "", !.field = Answered],
                   Accepted(seen, "field"))

\* lines 1150-1259
SaveStandup ==
  /\ flow.pc = "save"
  /\ SaveAndEnd(flow, seen,
       [exists |-> TRUE, by |-> "interactive",
        accomplishments |-> flow.accomplishments])

(***************************************************************************)
(* The reminders: checkReminders (reminders.ts).  lastNotification is an   *)
(* ISO string in UTC: the model keeps its first ten characters, the UTC    *)
(* date, which is all that startsWith(today) reads.  lastCheck, which      *)
(* nothing reads, is left out of the state file.                           *)
(***************************************************************************)
\* the UTC hour at the first local midnight: local time is UTC+1, and one
\* hour more after the clocks went forward
UTC_AT_FIRST_MIDNIGHT == 23

getUTCHours(t) == (t + UTC_AT_FIRST_MIDNIGHT) % HOURS_PER_DAY

\* the day of the UTC date of an instant, numbered as the local days are
UtcDayOf(t) == ((t + UTC_AT_FIRST_MIDNIGHT) \div HOURS_PER_DAY) - 1

toISOString(t) == <<UtcDayOf(t)>>

\* Date.prototype.getHours: the hour the local clock shows.  The change is
\* at two o'clock: the hour 2 is skipped on a day of 23 hours, and the hour
\* 1 comes twice on a day of 25.
getHours(len, t) ==
  LET d       == DayOf(len, t)
      elapsed == t - StartOf(len, d)
  IN  IF elapsed < 2 \/ len[d] = HOURS_PER_DAY THEN elapsed
      ELSE IF len[d] < HOURS_PER_DAY THEN elapsed + 1
      ELSE elapsed - 1

InitialReminderState == [dismissedToday |-> FALSE, lastNotification |-> <<>>]

getReminderState(file) == IF file.exists THEN file.data ELSE InitialReminderState

hasStandupToday(files, len, t) == files[DayOf(len, t)].exists

\* the day of the last file of STANDUP_DIR in the order of the names
LastStandupDays(files) == {d \in Days : files[d].exists}

getLastStandupDate(files) ==
  CHOOSE d \in LastStandupDays(files) : \A e \in LastStandupDays(files) : e <= d

\* parseISO gives the local midnight of the day; Math.floor of the hours
\* since then over 24
daysSinceLastStandup(files, len, t) ==
  IF LastStandupDays(files) = {} THEN 999
  ELSE (t - StartOf(len, getLastStandupDate(files))) \div HOURS_PER_DAY

\* 8 AM UTC, to the hour
hasPassedScheduledTime(t) == getUTCHours(t) >= 8

isWorkHoursEnd(len, t) == getHours(len, t) = 17

\* the four checks of lines 173-208, each overwriting what the ones before
\* it have set
Check0 ==
  [shouldNotify |-> FALSE, title |-> "Standup Reminder", body |-> "",
   urgency |-> "normal"]

Check1(n, files, len, t) ==
  IF hasPassedScheduledTime(t) /\ ~hasStandupToday(files, len, t)
    THEN [n EXCEPT !.shouldNotify = TRUE, !.body = "not done today",
                   !.urgency = "normal"]
    ELSE n

Check2(n, daysSince) ==
  IF daysSince >= 2
    THEN [n EXCEPT !.shouldNotify = TRUE, !.title = "Streak at Risk!",
                   !.body = "days since last standup", !.urgency = "critical"]
    ELSE n

Check3(n, files, len, t) ==
  IF isWorkHoursEnd(len, t) /\ ~hasStandupToday(files, len, t)
    THEN [n EXCEPT !.shouldNotify = TRUE, !.body = "end of day",
                   !.urgency = "normal"]
    ELSE n

NewCommitsCheck_AnyDay(hasCommits, standupToday, daysSince) ==
  hasCommits /\ ~standupToday

\* the condition of line 202
NewCommitsCheck(hasCommits, standupToday, daysSince) ==
  hasCommits /\ ~standupToday /\ daysSince = 0

Check4(n, files, len, t, hasCommits, daysSince) ==
  IF NewCommitsCheck(hasCommits, hasStandupToday(files, len, t), daysSince)
    THEN [n EXCEPT !.shouldNotify = TRUE, !.title = "New Commits Detected",
                   !.body = "new commits", !.urgency = "low"]
    ELSE n

Checks(files, len, t, hasCommits) ==
  LET daysSince == daysSinceLastStandup(files, len, t)
  IN  Check4(Check3(Check2(Check1(Check0, files, len, t), daysSince),
                    files, len, t),
             files, len, t, hasCommits, daysSince)

ReminderFileOf(state) == [exists |-> TRUE, data |-> state]

\* what a run of checkReminders does: the call of notify-send, if any, and
\* the state file after it
checkReminders(file, files, len, t, hasCommits, sent) ==
  LET read    == getReminderState(file)
      today   == FormatDate(len, t)
      state   == IF read.lastNotification # <<>> /\ read.lastNotification # today
                   THEN [read EXCEPT !.dismissedToday = FALSE]
                   ELSE read
      n       == Checks(files, len, t, hasCommits)
      quiet   == [called |-> FALSE, file |-> file]
  IN  IF state.dismissedToday THEN quiet
      ELSE IF hasStandupToday(files, len, t) THEN quiet
      ELSE IF n.shouldNotify
        THEN [called |-> TRUE, notification |-> n,
              file |-> IF sent
                         THEN ReminderFileOf(
                                [state EXCEPT !.lastNotification = toISOString(t)])
                         ELSE file]
      ELSE [called |-> FALSE, file |-> ReminderFileOf(state)]

NoNotification ==
  [sent |-> FALSE, title |-> "", body |-> "", urgency |-> "",
   twoDays |-> FALSE, workEnd |-> FALSE, hasCommits |-> FALSE,
   afterShortDay |-> FALSE]

RemindersIdle ==
  /\ remindersFile = NoFile
  /\ nLast = NoNotification
  /\ nDay = <<>>
  /\ nCount = 0

InitReminders == RemindersIdle

\* a standup is saved for today (index.ts line 1212)
StandupDone ==
  /\ standupFiles' = [standupFiles EXCEPT ![Today] = EarlierStandup]
  /\ UNCHANGED <<firstDay, cfg, flow, seen, timeVars, streakVars, remindVars, gitVars>>

\* the first hour of a day that follows, with a standup, a day of 23 hours
AfterShortDay(files, len, t) ==
  LET d == DayOf(len, t)
  IN  /\ d >= 1
      /\ len[d - 1] < HOURS_PER_DAY
      /\ t = StartOf(len, d)
      /\ files[d - 1].exists
      /\ ~files[d].exists

\* since the last standup, if any, 48 hours or more have passed
TwoDaysPassed(files, len, t) ==
  daysSinceLastStandup(files, len, t) >= 2

\* history: what was sent, and the circumstances of the run
SentNotification(r, files, len, t, hasCommits) ==
  [sent |-> TRUE, title |-> r.notification.title,
   body |-> r.notification.body, urgency |-> r.notification.urgency,
   twoDays |-> TwoDaysPassed(files, len, t),
   workEnd |-> getHours(len, t) = 17,
   hasCommits |-> hasCommits,
   afterShortDay |-> AfterShortDay(files, len, t)]

CheckReminders ==
  \E hasCommits \in BOOLEAN, sent \in BOOLEAN :
    \E r \in {checkReminders(remindersFile, standupFiles, dayLen, nowHour,
                             hasCommits, sent)} :
      /\ remindersFile' = r.file
      /\ IF r.called /\ sent
           THEN /\ nLast' = SentNotification(r, standupFiles, dayLen, nowHour,
                                             hasCommits)
                /\ nDay' = <<Today>>
                /\ nCount' = IF nDay = <<Today>>
                               THEN (IF nCount >= 1 THEN 2 ELSE 1)
                               ELSE 1
           ELSE UNCHANGED <<nLast, nDay, nCount>>
      /\ UNCHANGED <<flowVars, timeVars, streakVars, gitVars>>

DailyIdle == ClockIdle /\ StreakIdle /\ FlowIdle /\ RemindersIdle
UtilIdle == ParseIdle /\ UnpushedIdle /\ FindIdle /\ FormatIdle /\ DailyIdle

(***************************************************************************)
(* Specifications                                                          *)
(***************************************************************************)
Init == InitAgg /\ BranchIdle /\ FetchIdle /\ UtilIdle

Next ==
  \/ \E r \in Repos : FetchReturn(r)
  \/ \E r \in Repos : DetectReturn(r)
  \/ Finish

Spec == Init /\ [][Next]_vars

InitB == InitBranch /\ AggIdle /\ FetchIdle /\ UtilIdle

NextB == ExtractBranch

SpecBranch == InitB /\ [][NextB]_vars

InitF == InitFetch /\ AggIdle /\ BranchIdle /\ UtilIdle

NextF ==
  \/ Spawn
  \/ ProcWrite
  \/ ProcCloseStdout
  \/ ProcCloseStderr
  \/ ProcExit
  \/ ProcDie
  \/ Tick
  \/ TimerFire
  \/ ReadStdout
  \/ ReadStderr
  \/ AwaitExit

SpecFetch == InitF /\ [][NextF]_vars

CoreIdle == AggIdle /\ BranchIdle /\ FetchIdle

InitP == InitParse /\ CoreIdle /\ UnpushedIdle /\ FindIdle /\ FormatIdle /\ DailyIdle

NextP == ParseRecord

SpecParse == InitP /\ [][NextP]_vars

InitU == InitUnpushed /\ CoreIdle /\ ParseIdle /\ FindIdle /\ FormatIdle /\ DailyIdle

NextU ==
  \/ ListBranches
  \/ CompareBranch
  \/ ReturnUnpushed

SpecUnpushed == InitU /\ [][NextU]_vars

InitG == InitFind /\ CoreIdle /\ ParseIdle /\ UnpushedIdle /\ FormatIdle /\ DailyIdle

NextG == FindReturn

SpecFind == InitG /\ [][NextG]_vars

InitM == InitFormat /\ CoreIdle /\ ParseIdle /\ UnpushedIdle /\ FindIdle /\ DailyIdle

NextM ==
  \/ FormatGrouped
  \/ FormatFlat
  \/ ToAccomplishments

SpecFormat == InitM /\ [][NextM]_vars

GitIdle == CoreIdle /\ ParseIdle /\ UnpushedIdle /\ FindIdle /\ FormatIdle

InitS == InitClock /\ InitStreak /\ FlowIdle /\ RemindersIdle /\ GitIdle

NextS ==
  \/ ClockTick
  \/ UpdateStreak

SpecStreak == InitS /\ [][NextS]_vars

InitR == InitFlow /\ RemindersIdle /\ GitIdle

NextR ==
  \/ StartRun
  \/ OverwriteReply
  \/ AutoGenerate
  \/ ScanGitReply
  \/ TimeRangeReply
  \/ CustomHoursReply
  \/ DisplayFormatReply
  \/ MoodReply
  \/ CustomMoodReply
  \/ ConfirmReply
  \/ UseGitReply
  \/ GitMenuReply
  \/ AcceptImprovedReply
  \/ AddItemReply
  \/ AddAnotherReply
  \/ AskTextReply
  \/ AskSkipReply
  \/ AskMoreReply
  \/ UseAiReply
  \/ FieldTextReply
  \/ SaveStandup

SpecStandup == InitR /\ [][NextR]_vars

InitN ==
  /\ InitClock
  /\ StreakIdle
  /\ firstDay = 0
  /\ cfg = DefaultConfig
  /\ standupFiles = [d \in Days |-> AbsentFile]
  /\ flow = IdleRun
  /\ seen = NothingSeen
  /\ InitReminders
  /\ GitIdle

NextN ==
  \/ ClockTick
  \/ StandupDone
  \/ CheckReminders

SpecReminders == InitN /\ [][NextN]_vars

(***************************************************************************)
(* Properties of aggregateCommits (specification Spec)                     *)
(***************************************************************************)
Done == aggPc = "done"

RECURSIVE SumOfLengths(_)
SumOfLengths(gs) ==
  IF gs = <<>> THEN 0 ELSE Len(Head(gs).commits) + SumOfLengths(Tail(gs))

\* the repositories whose fetch returned at least one commit
Kept == {r \in Repos : Len(commitsOf[r]) > 0}

\* the group repository r alone determines: its fetched commits, each marked
\* by membership in its own unpushed set
GroupFor(r) ==
  LET marked == [i \in 1..Len(commitsOf[r]) |->
                   [commitsOf[r][i] EXCEPT
                      !.isUnpushed = (commitsOf[r][i].hash \in unpushedOf[r])]]
  IN  [repoName |-> Basename(repoPaths[r]),
       commits |-> marked,
       pushedCount |-> Cardinality({i \in 1..Len(marked) : ~marked[i].isUnpushed}),
       unpushedCount |-> Cardinality({i \in 1..Len(marked) : marked[i].isUnpushed})]

\* C1: in every result, totalCommits is the sum of the groups' commit counts,
\* and in every group pushedCount + unpushedCount is the number of commits.
C1_CountsAddUp ==
  Done =>
    /\ totalCommits = SumOfLengths(groups)
    /\ \A i \in 1..Len(groups) :
         groups[i].pushedCount + groups[i].unpushedCount = Len(groups[i].commits)

\* a result with two groups, one of which has pushed and unpushed commits
C1_Witness ==
  /\ Done
  /\ Len(groups) = 2
  /\ totalCommits >= 3
  /\ \E i \in 1..Len(groups) : groups[i].pushedCount > 0 /\ groups[i].unpushedCount > 0

SortedByName ==
  \A i, j \in 1..Len(groups) :
    i < j => localeCompare(groups[i].repoName, groups[j].repoName) <= 0

\* C2 as stated: the groups are sorted ascending by repository name and no
\* two groups have the same repository name.
C2_SortedAndUnique ==
  Done =>
    /\ SortedByName
    /\ \A i, j \in 1..Len(groups) : i # j => groups[i].repoName # groups[j].repoName

\* C2 as amended: the groups are sorted ascending by repository name, and a
\* name has as many groups as the input list has entries with that final
\* path segment that yielded commits (so two groups share a name only when
\* two entries of the input do).
C2_SortedOnePerPath ==
  Done =>
    /\ SortedByName
    /\ \A i \in 1..Len(groups) :
         Cardinality({j \in 1..Len(groups) : groups[j].repoName = groups[i].repoName})
           = Cardinality({r \in Kept : Basename(repoPaths[r]) = groups[i].repoName})
    /\ Len(groups) = Cardinality(Kept)

\* two repositories given in descending order of name come out ascending
C2_Witness ==
  /\ Done
  /\ Len(groups) = 2
  /\ Len(repoPaths) = 2
  /\ localeCompare(Basename(repoPaths[1]), Basename(repoPaths[2])) > 0
  /\ groups[1].repoName = Basename(repoPaths[2])

\* C3: a commit's isUnpushed is true exactly when its hash is in the set
\* getUnpushedCommits returned for the same repository; a task has a result
\* only after both its fetch and its detection have completed, and every
\* commit of the output is a commit of such a result.
C3_MarkedAfterJoin ==
  /\ \A r \in Repos :
       results[r].ready =>
         /\ fetchState[r] = "done"
         /\ detectState[r] = "done"
  /\ \A r \in Repos :
       (fetchState[r] = "done" /\ detectState[r] = "done" /\ results[r].ready) =>
         /\ Len(results[r].commits) = Len(commitsOf[r])
         /\ \A i \in 1..Len(results[r].commits) :
              /\ results[r].commits[i].hash = commitsOf[r][i].hash
              /\ results[r].commits[i].isUnpushed \in BOOLEAN
              /\ results[r].commits[i].isUnpushed
                   <=> (results[r].commits[i].hash \in unpushedOf[r])
  /\ Done =>
       \A i \in 1..Len(groups) :
         \E r \in Repos :
           /\ results[r].ready
           /\ groups[i].repoName = results[r].repoName
           /\ groups[i].commits = results[r].commits

\* a result in which one commit is marked unpushed and another is not
C3_Witness ==
  /\ Done
  /\ \E i \in 1..Len(groups) :
       \E a, b \in 1..Len(groups[i].commits) :
         groups[i].commits[a].isUnpushed /\ ~groups[i].commits[b].isUnpushed

ComesBefore(q, r) ==
  \/ localeCompare(Basename(repoPaths[q]), Basename(repoPaths[r])) < 0
  \/ /\ localeCompare(Basename(repoPaths[q]), Basename(repoPaths[r])) = 0
     /\ q < r

ExpectedGroups ==
  [i \in 1..Cardinality(Kept) |->
     GroupFor(CHOOSE r \in Kept :
                Cardinality({q \in Kept : ComesBefore(q, r)}) = i - 1)]

\* C5: the groups returned, and their order, are determined by the input
\* list and the per-repository fetch and detection results alone, whatever
\* the order in which the tasks finished.
C5_OrderIndependent == Done => groups = ExpectedGroups

\* two repositories of the same name and different commits, the second of
\* which finished first
C5_Witness ==
  /\ Done
  /\ Len(groups) = 2
  /\ groups[1].repoName = groups[2].repoName
  /\ groups[1] # groups[2]
  /\ completed = <<2, 1>>

FetchFailed(r) ==
  \/ ~configLoaded
  \/ ~repoState[r].log.spawned
  \/ repoState[r].log.exitCode # 0
  \/ TryBody(repoPaths[r], repoState[r].log, configLoaded).threw

DetectFailed(r) == repoState[r].refs.listExit # 0

\* C6: when the fetch or the detection of one repository soft-fails, the
\* aggregation does not throw, is never blocked before it returns, and what
\* it returns holds, as that repository alone determines it, the group of
\* every other repository that has a commit, and no group more than one
\* per repository with commits.
C6_FailureIsolated ==
  \A f \in Repos :
    (FetchFailed(f) \/ DetectFailed(f)) =>
      /\ aggPc # "rejected"
      /\ aggPc = "running" =>
           \/ \E r \in Repos : fetchState[r] = "running" \/ detectState[r] = "running"
           \/ \A r \in Repos : results[r].ready
      /\ Done =>
           /\ \A r \in Kept \ {f} : \E i \in 1..Len(groups) : groups[i] = GroupFor(r)
           /\ Len(groups) = Cardinality(Kept)

\* one repository's fetch failed and the result holds the other's group
C6_Witness ==
  /\ Done
  /\ Len(repoPaths) = 2
  /\ FetchFailed(1)
  /\ commitsOf[1] = <<>>
  /\ Len(groups) = 1
  /\ groups[1] = GroupFor(2)

\* C9: every group of every result has at least one commit.
C9_NoEmptyGroup ==
  Done => \A i \in 1..Len(groups) : Len(groups[i].commits) >= 1

\* a repository without commits next to one with commits
C9_Witness ==
  /\ Done
  /\ \E r \in Repos : commitsOf[r] = <<>> /\ ~FetchFailed(r)
  /\ Len(groups) >= 1

(***************************************************************************)
(* Properties of extractBranchName (specification SpecBranch)              *)
(***************************************************************************)
\* the tokens of a decoration: parentheses stripped, split on commas, trimmed
RefTokens(s) ==
  LET pieces == Split(StripParens(s), ",")
  IN  [i \in 1..Len(pieces) |-> Trim(pieces[i])]

\* the places in a token where "HEAD -> " is followed by a branch name
ArrowPlaces(t) ==
  {k \in 1..Len(t) :
     /\ k + Len(HeadArrow) <= Len(t)
     /\ SubSeq(t, k, k + Len(HeadArrow) - 1) = HeadArrow}

\* the result names the branch b; a token without characters names none
NamesBranch(result, b) ==
  IF b = <<>> THEN result \in {NoBranch, <<>>} ELSE result = b

\* C10: the empty decoration gives no branch; otherwise, of the tokens, the
\* first "HEAD -> X" gives X; else the first token that neither starts with
\* "origin/" nor with "tag:" is the branch; else the first "origin/" token
\* without that prefix; else there is no branch.
C10_BranchPriority ==
  branchPc = "returned" =>
    LET toks == RefTokens(refInput)
        heads == {i \in 1..Len(toks) : ArrowPlaces(toks[i]) # {}}
        locals == {i \in 1..Len(toks) :
                     /\ ~(Len(toks[i]) >= 7 /\ SubSeq(toks[i], 1, 7) = OriginPrefix)
                     /\ ~(Len(toks[i]) >= 4 /\ SubSeq(toks[i], 1, 4) = TagPrefix)}
        origins == {i \in 1..Len(toks) :
                      Len(toks[i]) >= 7 /\ SubSeq(toks[i], 1, 7) = OriginPrefix}
    IN  IF refInput = <<>> THEN branchOut = NoBranch
        ELSE IF heads # {}
        THEN LET t == toks[Min(heads)]
             IN  branchOut = SubSeq(t, Min(ArrowPlaces(t)) + Len(HeadArrow), Len(t))
        ELSE IF locals # {} THEN NamesBranch(branchOut, toks[Min(locals)])
        ELSE IF origins # {}
        THEN LET t == toks[Min(origins)]
             IN  NamesBranch(branchOut, SubSeq(t, 8, Len(t)))
        ELSE branchOut = NoBranch

\* "(tag: v, origin/m)" has returned m
C10_Witness ==
  /\ branchPc = "returned"
  /\ refInput = <<"(">> \o TagPrefix \o <<" ", "v", ",", " ">> \o OriginPrefix \o <<"m", ")">>
  /\ branchOut = <<"m">>

(***************************************************************************)
(* Properties of getCommitsSince (specification SpecFetch)                *)
(***************************************************************************)
\* C7: whenever the subprocess has not exited within the timeout, it has
\* been killed, and the call, once it returns, returns an empty list without
\* throwing.
C7_TimeoutKills ==
  overdue =>
    /\ killSent
    /\ fPc = "returned" => (~fReturn.threw /\ fReturn.commits = <<>>)

\* a failure of the call: the exit code is not zero, the subprocess was
\* killed, the spawn (or getConfig before it) raised, or a line of the
\* output that was read is no record
ReadLines == Split(Trim(fOutput), "\n")

FetchFailure ==
  \/ ~fLoaded
  \/ ~fSpawnOk
  \/ exitCode # 0
  \/ killSent
  \/ \E i \in 1..Len(ReadLines) :
       ReadLines[i] # <<>> /\ Len(Split(ReadLines[i], "|")) < 4

\* C8: getCommitsSince never throws, and on any failure it returns an empty
\* list, never the commits parsed before the failure.
C8_EmptyOnFailure ==
  fPc = "returned" =>
    /\ ~fReturn.threw
    /\ FetchFailure => fReturn.commits = <<>>

(***************************************************************************)
(* Properties of the record split (specification SpecParse)               *)
(***************************************************************************)
\* the line of the record, and the places of its delimiters
RecordLine == FormatRecord(pFields)

Pipes == Occurrences(RecordLine, <<"|">>)

\* the place of the k-th delimiter of the line
NthPipe(k) == CHOOSE p \in Pipes : Cardinality({q \in Pipes : q < p}) = k - 1

\* a field of the commit holds no delimiter
PipeFree(field) == Occurrences(field, <<"|">>) = {}

\* C11: only the first four "|" of a record separate fields: the hash, the
\* timestamp, the author and the decoration are the texts before and
\* between them, and the message is the whole text after the fourth,
\* trimmed, with every further "|" kept; so for a commit whose first four
\* fields hold no "|", the message is the subject (trimmed), however many
\* "|" the subject holds, and the other four fields are the commit's.
C11_FirstFourDelimiters ==
  pPc = "returned" =>
    /\ pOut.hash = SubSeq(RecordLine, 1, NthPipe(1) - 1)
    /\ pOut.timestamp = SubSeq(RecordLine, NthPipe(1) + 1, NthPipe(2) - 1)
    /\ pOut.author = SubSeq(RecordLine, NthPipe(2) + 1, NthPipe(3) - 1)
    /\ pOut.refNames = Trim(SubSeq(RecordLine, NthPipe(3) + 1, NthPipe(4) - 1))
    /\ pOut.message = Trim(SubSeq(RecordLine, NthPipe(4) + 1, Len(RecordLine)))
    /\ (PipeFree(pFields.author) /\ PipeFree(pFields.decoration)) =>
         /\ pOut.message = Trim(pFields.subject)
         /\ Cardinality(Occurrences(pOut.message, <<"|">>))
              = Cardinality(Occurrences(Trim(pFields.subject), <<"|">>))
         /\ pOut.hash = pFields.hash
         /\ pOut.timestamp = pFields.timestamp
         /\ pOut.author = pFields.author
         /\ pOut.refNames = Trim(pFields.decoration)

\* the subject "m||m" of a commit on branch x came out whole
C11_Witness ==
  /\ pPc = "returned"
  /\ pFields.subject = <<"m", "|", "|", "m">>
  /\ pFields.author = <<"u">>
  /\ pFields.decoration = <<" ", "(", "x", ")">>
  /\ pOut.message = <<"m", "|", "|", "m">>
  /\ pOut.branch = <<"x">>

(***************************************************************************)
(* Properties of getUnpushedCommits (specification SpecUnpushed)          *)
(***************************************************************************)
\* the commits reachable from the branch and not from its remote counterpart
AheadOf(name) == HeadNamed(uHeads, name).local \ HeadNamed(uHeads, name).remote

\* C12: getUnpushedCommits never throws; it returns the empty set when the
\* listing of the branches fails; otherwise every local branch is compared,
\* whatever became of the comparisons before it, and the set returned is
\* the union, over the branches whose comparison succeeded, of the commits
\* reachable from the branch and not from origin/<branch>.
C12_UnionOverBranches ==
  /\ uPc \in {"idle", "called", "loop", "returned"}
  /\ uPc = "returned" =>
       IF ~uListOk \/ uListExit # 0 THEN uUnpushed = {}
       ELSE /\ Len(uRuns) = Len(uHeads)
            /\ \A i \in 1..Len(uHeads) : uRuns[i].branch = uHeads[i].name
            /\ \A i \in 1..Len(uRuns) :
                 uRuns[i].ok => HeadNamed(uHeads, uRuns[i].branch).hasRemote
            /\ uUnpushed =
                 UNION {AheadOf(uRuns[i].branch) : i \in {j \in 1..Len(uRuns) : uRuns[j].ok}}

\* the comparison of the first branch failed after it printed a commit, the
\* second branch succeeded, and only the second's commits are returned
C12_Witness ==
  /\ uPc = "returned"
  /\ Len(uRuns) = 2
  /\ ~uRuns[1].ok
  /\ uHeads[1].hasRemote
  /\ AheadOf(uHeads[1].name) = {H1, H2}
  /\ uRuns[2].ok
  /\ uUnpushed = AheadOf(uHeads[2].name)
  /\ uUnpushed = {H2, H3}

(***************************************************************************)
(* Properties of findGitRepositories (specification SpecFind)             *)
(***************************************************************************)
\* the walk ran and succeeded: the root exists, find was spawned and its
\* exit code is 0
WalkSucceeded ==
  /\ gLoaded
  /\ gSpawnOk
  /\ ~gDenied
  /\ gScanArg \in {Undefined, ScanRoot}

Returned(path) == \E i \in 1..Len(gOut.repos) : gOut.repos[i] = path

\* C13: no path returned has a final segment that is in the exclusion list,
\* and, of a walk that succeeded, every repository found whose short name
\* is not excluded is returned.
C13_ExclusionByName ==
  gPc = "returned" =>
    /\ \A i \in 1..Len(gOut.repos) :
         ~\E k \in 1..Len(gExclude) : gExclude[k] = Basename(gOut.repos[i])
    /\ WalkSucceeded =>
         \A j \in 1..Len(gFound) :
           (~\E k \in 1..Len(gExclude) : gExclude[k] = Basename(gFound[j]))
             => Returned(gFound[j])

\* C14: of a walk that succeeded with nothing excluded, the paths returned
\* are the parents of the metadata directories find reported, each P for
\* its P/.git, whatever P is.
C14_ParentOfMetadataDir ==
  (gPc = "returned" /\ WalkSucceeded /\ gExclude = <<>>) => gOut.repos = gFound

\* C15: findGitRepositories never raises, whether or not the configuration
\* has been loaded, and on an error of the walk (missing root, find exiting
\* with a code other than 0 after printing matches, a spawn that fails) it
\* returns the empty list.
C15_NeverRaises ==
  gPc = "returned" =>
    /\ ~gOut.threw
    /\ (~gSpawnOk \/ gDenied \/ gScanArg = MissingRoot) => gOut.repos = <<>>

(***************************************************************************)
(* Properties of the formatters (specification SpecFormat)                 *)
(***************************************************************************)
\* the number of commits in the groups before group g
CommitsBefore(g) == SumOfLengths(SubSeq(mGroups, 1, g - 1))

\* the places (g, c) of the commits of the groups
CommitPlaces ==
  {pl \in (1..Len(mGroups)) \X (1..MaxCommits + 1) :
     pl[2] <= Len(mGroups[pl[1]].commits)}

\* the bracketed repository name and the bracketed branch, if any, that
\* start the line of a commit in the flat formats
TagsOf(pl) ==
  LET commit == mGroups[pl[1]].commits[pl[2]]
  IN  <<"[">> \o mGroups[pl[1]].repoName \o <<"]", " ">>
        \o (IF commit.branch = Undefined THEN <<>>
            ELSE <<"[">> \o commit.branch \o <<"]", " ">>)

\* the ways to read a message as a conventional prefix in any letter case,
\* a colon, n characters of white space and a rest that does not start with
\* white space: the places at which the rest starts
RestAfterPrefix(m) ==
  {k \in 1..(Len(m) + 1) :
     \E i \in 1..Len(ConventionalPrefixes) :
       LET p == ConventionalPrefixes[i]
       IN  /\ k >= Len(p) + 2
           /\ \A j \in 1..Len(p) : LowerCase(m[j]) = p[j]
           /\ m[Len(p) + 1] = ":"
           /\ \A j \in (Len(p) + 2)..(k - 1) : m[j] \in {" ", "\n"}
           /\ (k <= Len(m) => m[k] \notin {" ", "\n"})}

\* C16: in the string of a commit, commitsToAccomplishments leaves out one
\* leading conventional prefix of the message (in any letter case) with its
\* colon and the white space after it, and nothing else; the message of a
\* commit that does not start with such a prefix is there unchanged.
C16_OnePrefixStripped ==
  "acc" \in mDone =>
    \A pl \in CommitPlaces :
      LET commit == mGroups[pl[1]].commits[pl[2]]
          m == commit.message
          line == mAcc[CommitsBefore(pl[1]) + pl[2]]
          mark == IF commit.isUnpushed THEN <<" ", "(", "u", "n", "p", "u", "s", "h", "e", "d", ")">> ELSE <<>>
      IN  IF RestAfterPrefix(m) = {}
          THEN line = TagsOf(pl) \o m \o mark
          ELSE \A k \in RestAfterPrefix(m) :
                 line = TagsOf(pl) \o SubSeq(m, k, Len(m)) \o mark

\* "feat: fix: x" has become "[A] fix: x": the second prefix stays
C16_Witness ==
  /\ "acc" \in mDone
  /\ Len(mGroups) = 1
  /\ mGroups[1].commits[1].message = <<"f", "e", "a", "t", ":", " ", "f", "i", "x", ":", " ", "x">>
  /\ mAcc = <<<<"[", "A", "]", " ", "f", "i", "x", ":", " ", "x">>>>

\* C17: commitsToAccomplishments returns one string per commit, in the
\* order of the groups and, within a group, of its commits, as many as
\* formatCommitsFlat returns lines, and commits with the same message each
\* keep their string.
C17_OnePerCommitNoDedup ==
  "acc" \in mDone =>
    /\ Len(mAcc) = SumOfLengths(mGroups)
    /\ "flat" \in mDone => Len(mAcc) = Len(mFlat)
    /\ \A pl \in CommitPlaces :
         mAcc[CommitsBefore(pl[1]) + pl[2]]
           = CommitLine("acc", mGroups[pl[1]].repoName, mGroups[pl[1]].commits[pl[2]])

\* two commits of a group that are alike have given two equal strings
C17_Witness ==
  /\ "acc" \in mDone
  /\ "flat" \in mDone
  /\ Len(mGroups) = 2
  /\ Len(mGroups[1].commits) = 2
  /\ mGroups[1].commits[1] = mGroups[1].commits[2]
  /\ mAcc[1] = mAcc[2]
  /\ Len(mAcc) = 2 + Len(mGroups[2].commits)

\* C18: formatCommitsFlat returns one line per commit, in the order of the
\* groups and of their commits; the line is the bracketed repository name,
\* the bracketed branch if and only if the commit has one, the message,
\* and the unpushed marker if and only if the commit is unpushed.
C18_FlatLines ==
  "flat" \in mDone =>
    /\ Len(mFlat) = SumOfLengths(mGroups)
    /\ \A pl \in CommitPlaces :
         LET commit == mGroups[pl[1]].commits[pl[2]]
         IN  mFlat[CommitsBefore(pl[1]) + pl[2]]
               = TagsOf(pl) \o commit.message
                   \o (IF commit.isUnpushed THEN <<" ", "*", "u", "n", "p", "u", "s", "h", "e", "d">> ELSE <<>>)

\* group A with an unpushed commit on a branch and a pushed one without
C18_Witness ==
  /\ "flat" \in mDone
  /\ Len(mGroups) = 1
  /\ mFlat = <<<<"[", "A", "]", " ", "[", "m", "]", " ", "f", "i", "x", ":", " ", "y", " ", "*", "u", "n", "p", "u", "s", "h", "e", "d">>, <<"[", "A", "]", " ", "x">>>>

\* the header of a group in the grouped format
HeaderOf(g) ==
  <<"*", "*">> \o mGroups[g].repoName \o <<"*", "*", " ", "(">>
    \o NumberToString(Len(mGroups[g].commits)) \o <<" ", "c", "o", "m", "m", "i", "t", "s">>
    \o (IF mGroups[g].unpushedCount > 0
        THEN <<" ", "(">> \o NumberToString(mGroups[g].unpushedCount) \o <<" ", "u", "n", "p", "u", "s", "h", "e", "d", ")">>
        ELSE <<>>)
    \o <<")">>

\* the lines of the commits of group g are at the places after place s
CommitLinesAfter(g, s) ==
  \A c \in 1..Len(mGroups[g].commits) :
    mGrouped[s + c] = CommitLine("grouped", mGroups[g].repoName, mGroups[g].commits[c])

\* C19 as stated: each group gives, in order, a header line, one line per
\* commit and a blank line: n + 2 lines for a group of n commits.
C19_HeaderCommitsBlank ==
  "grouped" \in mDone =>
    /\ Len(mGrouped) = SumOfLengths(mGroups) + 2 * Len(mGroups)
    /\ \A g \in 1..Len(mGroups) :
         LET s == CommitsBefore(g) + 2 * (g - 1)
         IN  /\ mGrouped[s + 1] = HeaderOf(g)
             /\ CommitLinesAfter(g, s + 1)
             /\ mGrouped[s + Len(mGroups[g].commits) + 2] = <<>>

\* C19 as amended: each group gives, in order, a header line (the name, the
\* number of commits, and the unpushed count if and only if it is greater
\* than zero), a blank line, one line per commit and a blank line: n + 3
\* lines for a group of n commits.
C19_HeaderBlankCommitsBlank ==
  "grouped" \in mDone =>
    /\ Len(mGrouped) = SumOfLengths(mGroups) + 3 * Len(mGroups)
    /\ \A g \in 1..Len(mGroups) :
         LET s == CommitsBefore(g) + 3 * (g - 1)
         IN  /\ mGrouped[s + 1] = HeaderOf(g)
             /\ mGrouped[s + 2] = <<>>
             /\ CommitLinesAfter(g, s + 2)
             /\ mGrouped[s + Len(mGroups[g].commits) + 3] = <<>>

\* two groups, the first with an unpushed commit and the second without
C19_Witness ==
  /\ "grouped" \in mDone
  /\ Len(mGroups) = 2
  /\ mGroups[1].unpushedCount = 1
  /\ Len(mGroups[1].commits) = 2
  /\ mGroups[2].unpushedCount = 0
  /\ mGrouped[1] = <<"*", "*", "A", "*", "*", " ", "(", "2", " ", "c", "o", "m", "m", "i", "t", "s", " ", "(", "1", " ", "u", "n", "p", "u", "s", "h", "e", "d", ")", ")">>
  /\ mGrouped[6] = <<"*", "*", "B", "*", "*", " ", "(", "1", " ", "c", "o", "m", "m", "i", "t", "s", ")">>
  /\ Len(mGrouped) = 6 + 2 + Len(mGroups[2].commits)

\* C20: for a cutoff not later than the time of the call, the N of
\* "N hours ago" is the number of hours from the cutoff to the call rounded
\* up: the boundary N hours before the call is not later than the cutoff
\* and less than one hour earlier than it.
C20_HoursRoundedUp ==
  (fPc \notin {"idle", "called"} /\ fSince <= fNow) =>
    /\ fHoursAgo >= 0
    /\ fNow - fHoursAgo * MS_PER_HOUR <= fSince
    /\ fSince - (fNow - fHoursAgo * MS_PER_HOUR) < MS_PER_HOUR

\* a cutoff one hour and one millisecond before the call: 2 hours ago
C20_Witness ==
  /\ fPc = "readStdout"
  /\ fNow - fSince = MS_PER_HOUR + 1
  /\ fHoursAgo = 2

(***************************************************************************)
(* C21, C27: the streak rule                                               *)
(***************************************************************************)
\* the calendar day of the last call, and the one before it
CallDay == DayOf(dayLen, sAt)

StreakRuleAtLastCall ==
  LET today     == <<CallDay>>
      yesterday == <<CallDay - 1>>
      stored    == streakFile.data
  IN  /\ sPrev.lastStandup = yesterday => stored.current = sPrev.current + 1
      /\ sPrev.lastStandup \notin {today, yesterday} => stored.current = 1
      /\ sPrev.lastStandup # today =>
           /\ stored.longest =
                (IF sPrev.longest >= stored.current THEN sPrev.longest
                 ELSE stored.current)
           /\ stored.lastStandup = today

\* C21: after a call of updateStreak, when the last standup was on the
\* calendar day before the call the current streak is one more than before;
\* when it was neither on the day of the call nor on the day before (or
\* there was none) the current streak is 1; in both cases longest is the
\* maximum of the old longest and the new current, and lastStandup is the
\* day of the call.
C21_StreakRule == sCalled => StreakRuleAtLastCall

\* the same rule on the calls made when no clock change lies within the
\* 24 hours before the call: it holds there
NoClockChangeBefore(t) ==
  DayOf(dayLen, t - HOURS_PER_DAY) = DayOf(dayLen, t) - 1

C21_StreakRuleAwayFromClockChanges ==
  (sCalled /\ NoClockChangeBefore(sAt)) => StreakRuleAtLastCall

C21_AwayFromClockChangesReached ==
  /\ sCalled
  /\ NoClockChangeBefore(sAt)
  /\ sPrev.lastStandup = <<CallDay - 1>>
  /\ streakFile.data.current = 2

(***************************************************************************)
(* C22, C23, C28: the reminders                                            *)
(***************************************************************************)
\* C22: once checkReminders has sent a notification on a day, no later run
\* on that day sends another (no standup can lie in between: after one,
\* nothing is sent that day).
C22_OneNotificationADay == nCount <= 1

NewCommitsSent == nLast.sent /\ nLast.title = "New Commits Detected"

C23_NeverOnPlainDays ==
  (\A d \in Days : dayLen[d] = HOURS_PER_DAY) => ~NewCommitsSent

C23_PlainDaysReached ==
  /\ \A d \in Days : dayLen[d] = HOURS_PER_DAY
  /\ nLast.sent
  /\ nLast.hasCommits
  /\ nLast.title = "Standup Reminder"
  /\ standupFiles[0].exists

\* C28: a notification sent when two days or more have passed since the
\* last standup has urgency critical and the title and body of the streak
\* at risk, at every hour and whatever the other checks give.
C28_CriticalWhenTwoDays ==
  (nLast.sent /\ nLast.twoDays) =>
    /\ nLast.urgency = "critical"
    /\ nLast.title = "Streak at Risk!"
    /\ nLast.body = "days since last standup"

\* away from the local hour 17 it is so
C28_CriticalButAtWorkEnd ==
  (nLast.sent /\ nLast.twoDays /\ ~nLast.workEnd) =>
    /\ nLast.urgency = "critical"
    /\ nLast.title = "Streak at Risk!"
    /\ nLast.body = "days since last standup"

C28_CriticalReached ==
  /\ nLast.sent
  /\ nLast.twoDays
  /\ ~nLast.workEnd
  /\ nLast.hasCommits
  /\ standupFiles[0].exists

(***************************************************************************)
(* C24, C25, C26, C29, C30: the standup flows                              *)
(***************************************************************************)
Saved == flow.pc = "ended" /\ flow.end = "saved"

SavedText == standupFiles[Today].accomplishments

NothingWritten == seen.writes = 0 /\ ~sCalled

\* the questions the configuration asks
EnabledQuestions ==
  {"mood"}
    \cup (IF cfg.accomplishments THEN {"acc"} ELSE {})
    \cup (IF cfg.blockers THEN {"blockers"} ELSE {})
    \cup (IF cfg.todaysPlan THEN {"plan"} ELSE {})
    \cup (IF cfg.field # "none" THEN {"field"} ELSE {})

ExitedWithoutWriting ==
  /\ flow.pc = "ended"
  /\ flow.end \in {"cancelled", "kept", "crashed"}
  /\ NothingWritten

WrittenOnlyWhenAllConfirmed ==
  (flow.mode = "interactive" /\ ~NothingWritten) =>
    /\ Saved
    /\ EnabledQuestions \subseteq seen.confirmed

RestartAbandonsThePass ==
  seen.restarted =>
    /\ flow.pc = "scanGit"
    /\ flow = FreshLocals(flow)
    /\ seen.confirmed = {}
    /\ NothingWritten

\* C24: in runStandup the file is written and the streak updated only once
\* every enabled question has ended with an answer the user accepted in
\* the current pass; 'Start over from beginning' at a confirmation brings
\* the flow back to its first prompt with nothing written; and a cancel at
\* any prompt other than a confirmation ends the process with nothing
\* written.
C24_WriteOnlyAfterConfirmations ==
  /\ WrittenOnlyWhenAllConfirmed
  /\ RestartAbandonsThePass
  /\ seen.cancelAt # "" => ExitedWithoutWriting

\* the prompts at which a cancel is taken for the answer no
AddAnotherPrompts == {"addAnother", "askMore"}

\* the claim but for the cancels at the two 'Add another' prompts: it holds
C24_ButForAddAnother ==
  /\ WrittenOnlyWhenAllConfirmed
  /\ RestartAbandonsThePass
  /\ seen.cancelAt \notin ({""} \cup AddAnotherPrompts) => ExitedWithoutWriting

C24_ButForAddAnotherReached ==
  /\ Saved
  /\ flow.mode = "interactive"
  /\ seen.cancelAt = ""
  /\ EnabledQuestions = {"mood", "acc", "blockers", "plan", "field"}

C24_RestartReached == seen.restarted /\ flow.options = <<>>

C24_CancelReached == seen.cancelAt = "askText" /\ flow.end = "crashed"

\* C25: after the prefilled accomplishments were accepted, 'Start over
\* manually' leads to the manual prompt for the accomplishments, and what
\* is saved then is what was entered there, not the list from the commits.
C25_StartOverManually ==
  /\ (seen.menu = "edit" /\ flow.pc # "ended" /\ ~seen.manual) =>
       (flow.q = "acc" /\ flow.pc \in {"askText", "askSkip", "askMore"})
  /\ (Saved /\ seen.menu = "edit") =>
       (seen.manual /\ SavedText # flow.gitAccomplishments)

\* C30: when the AI-improved descriptions are declined the accomplishments
\* are again the list held before the improvement, and a 'Keep as is' that
\* follows saves that list.
C30_DeclineReverts ==
  /\ seen.menu = "declined" => flow.accomplishments = seen.beforeAI
  /\ (Saved /\ seen.menu = "keep after declined") => SavedText = seen.beforeAI

\* C26: when today's file exists at the start of runStandup or of
\* runAutoStandup, the file is written or the streak updated only after the
\* answer yes to the overwrite prompt; after no or a cancel the run has
\* ended with the file and the streak as they were.
C26_OverwriteOnlyOnYes ==
  seen.hadFile =>
    /\ ~NothingWritten => seen.overwrite = "yes"
    /\ seen.overwrite \in {"no", "cancel"} =>
         /\ flow.pc = "ended"
         /\ flow.end \in {"kept", "cancelled"}
         /\ standupFiles[Today] = EarlierStandup
         /\ NothingWritten

\* the overwrite prompt of runAutoStandup was cancelled
C26_Witness ==
  /\ seen.hadFile
  /\ flow.mode = "auto"
  /\ seen.overwrite = "cancel"
  /\ flow.pc = "ended"

C26_OverwrittenReached ==
  /\ seen.hadFile
  /\ seen.overwrite = "yes"
  /\ Saved
  /\ standupFiles[Today].by = "interactive"

\* C29: on every day of the week the options of getSmartTimeRangeOptions
\* have pairwise distinct values.
C29_DistinctOptionValues ==
  \A i, j \in 1..Len(flow.options) :
     i # j => flow.options[i].value # flow.options[j].value

\* Sunday is the one day on which the values are distinct
C29_DistinctOnSunday ==
  getDay(firstDay, dayLen, nowHour) = 0 => C29_DistinctOptionValues

C29_SundayReached ==
  /\ getDay(firstDay, dayLen, nowHour) = 0
  /\ Len(flow.options) = 8

\* C27: from the initial streak, after any calls of updateStreak on any
\* days, longest >= current >= 1 holds in the stored streak and in the
\* streak returned; and a call made on the day of the stored lastStandup
\* returns the stored streak as it was and writes nothing.
C27_StreakBounds ==
  sCalled =>
    /\ streakFile.exists
    /\ streakFile.data.longest >= streakFile.data.current
    /\ streakFile.data.current >= 1
    /\ sRet.longest >= sRet.current
    /\ sRet.current >= 1
    /\ sPrev.lastStandup = <<CallDay>> =>
         /\ ~sWrote
         /\ sRet = sPrev
         /\ streakFile.data = sPrev

\* a second call on one day, on the second day of a streak
C27_Witness ==
  /\ sCalled
  /\ sPrev.lastStandup = <<CallDay>>
  /\ ~sWrote
  /\ sRet.current = 2
  /\ sRet.longest = 2
====
